---- MODULE Spec2Model ----
(***************************************************************************)
(* Model of the pre-approval core of bank-of-anthos' boa-ai-agents.        *)
(*                                                                         *)
(* Part 1: the challenger agent (boa-ai-agents/challenger-agent/app.py).   *)
(* Part 2, further down: the risk agent (boa-ai-agents/risk-agent/app.py). *)
(*                                                                         *)
(* Arithmetic.  The code computes in binary floating point; the model      *)
(* computes the same expressions exactly:                                  *)
(*   - a monthly dollar flow x (monthly_spend, every revenue and cost,    *)
(*     the profits) is held as the integer x times Scale;                  *)
(*   - a dollar stock (credit_limit, avg_balance, revolving_balance,       *)
(*     capital_requirement) is held in whole dollars;                      *)
(*   - apr_rate (a percentage such as 18.99) is held in basis points       *)
(*     (1899); pd is held in units of 1/PdScale;                           *)
(*   - a quotient (roe, loss_rate) is held as a fraction [n, d] in lowest  *)
(*     terms with d > 0.                                                   *)
(* The inputs are chosen so that every intermediate value is an integer    *)
(* in these units and no comparison of the code falls on an exact tie.     *)
(*                                                                         *)
(* Python dicts are functions from keys to values; a key that is absent    *)
(* from the dict is absent from the DOMAIN.  dict.copy() is shallow: the   *)
(* nested 'revenues' and 'costs' dicts of a copied scenario are the very   *)
(* objects of the base scenario.  _run_stress_tests therefore threads the  *)
(* two shared objects through its assignments in program order, and every  *)
(* scenario (and the base) is read with the final contents of both.        *)
(***************************************************************************)
EXTENDS Integers, Sequences, FiniteSets, TLC

VARIABLES
    pc,                     \* where the request handler stands
    request,                \* the JSON body of the request
    base_scenario,          \* analyze_proposal's local base_scenario dict
    stress_results,         \* analyze_proposal's local stress_results
    constraint_violations,  \* analyze_proposal's local constraint_violations
    response,               \* the status and JSON body sent back
    base_dict,              \* the scenario engine alone: the base dict
    runs,                   \* ... and what each _run_stress_tests call returned
    rpc,                    \* where the risk agent's request handler stands
    risk_request,           \* user_id and months of the /assess request
    mcp,                    \* what the data collaborator holds for the user
    r_transactions,           \* analyze_risk's local transactions
    r_balance_data,           \* analyze_risk's local balance_data
    r_features,               \* analyze_risk's local features
    r_score,                  \* analyze_risk's local score
    r_tier,                   \* analyze_risk's local tier
    r_eligibility,            \* analyze_risk's local eligibility
    risk_response,          \* the status and JSON body /assess sent back
    history,                \* the earlier responses of /assess
    analyzer,               \* the module-level RiskAnalyzer object
    clock,                  \* the requests /assess has answered so far
    calls,                  \* two concurrent calls: arguments, position, result
    frames,                 \* ... the local variables they work in
    order,                  \* ... and whose step came when
    cache,                  \* the gateway orchestrator's cache dict
    now,                    \* the gateway's clock, in seconds
    waits,                  \* how often time has passed at the gateway
    served                  \* the last answer of /preapproval and its origin

challenger_vars == <<pc, request, base_scenario, stress_results,
                     constraint_violations, response, base_dict, runs>>

risk_vars == <<rpc, risk_request, mcp, r_transactions, r_balance_data, r_features,
               r_score, r_tier, r_eligibility, risk_response, history, analyzer,
               clock>>

conc_vars == <<calls, frames, order>>

gateway_vars == <<cache, now, waits, served>>

vars == <<challenger_vars, risk_vars, conc_vars, gateway_vars>>

handler_vars == <<pc, request, base_scenario, stress_results,
                  constraint_violations, response>>

----------------------------------------------------------------------------
(* Units and exact arithmetic                                              *)

Scale == 12 * 10000

PdScale == 100 * 100

Abs(x) == IF x < 0 THEN -x ELSE x

RECURSIVE GCD(_, _)
GCD(a, b) == IF b = 0 THEN a ELSE GCD(b, a % b)

\* the fraction n/d (d > 0) in lowest terms
Frac(n, d) ==
    LET g == GCD(Abs(n), d)
    IN  [n |-> n \div g, d |-> d \div g]

FracZero == [n |-> 0, d |-> 1]

\* a < b; the whole parts are compared first, so that no product overflows
FracLT(a, b) ==
    LET wa == a.n \div a.d
        wb == b.n \div b.d
    IN  IF wa # wb THEN wa < wb
        ELSE (a.n - wa * a.d) * b.d < (b.n - wb * b.d) * a.d

FracMul(a, b) == Frac(a.n * b.n, a.d * b.d)

\* x * num / den, exact for the values the model reaches
Times(x, num, den) ==
    LET g == GCD(num, den)
        p == num \div g
        q == den \div g
    IN  IF x % q = 0 THEN (x \div q) * p ELSE (x * p) \div q

\* dict.get(key, default)
Get(d, key, default) == IF key \in DOMAIN d THEN d[key] ELSE default

\* a reason or adjustment text: the literal part and the formatted values
Text(fmt, args) == [fmt |-> fmt, args |-> args]

----------------------------------------------------------------------------
(* ChallengerAgent.__init__: policy constraints and economic parameters    *)

min_roe == Frac(15, 100)

max_loss_rate == Frac(8, 100)

max_perk_budget_monthly == 50

max_apr == 2999

cof_base == Frac(4, 100)

ops_cost == 15

interchange_rate == Frac(18, 1000)

perk_cost_multiplier == Frac(35, 1000)

lgd == Frac(45, 100)

capital_ratio == Frac(8, 100)

----------------------------------------------------------------------------
(* ChallengerAgent._extract_pd_from_risk                                   *)

\* _extract_pd_from_risk with  <  for  <=  at the steps
_extract_pd_from_risk_strict(risk_data) ==
    LET risk_score == Get(risk_data, "risk_score", 50)
    IN  IF risk_score < 20 THEN 200
        ELSE IF risk_score < 40 THEN 400
        ELSE IF risk_score < 60 THEN 700
        ELSE IF risk_score < 80 THEN 1200
        ELSE 2000

_extract_pd_from_risk(risk_data) ==
    LET risk_score == Get(risk_data, "risk_score", 50)
    IN  IF risk_score <= 20 THEN 200
        ELSE IF risk_score <= 40 THEN 400
        ELSE IF risk_score <= 60 THEN 700
        ELSE IF risk_score <= 80 THEN 1200
        ELSE 2000

(* ChallengerAgent._build_base_scenario                                    *)

_build_base_scenario(terms, risk, spending) ==
    LET credit_limit == Get(terms, "credit_limit", 15000)
        apr_bps == Get(terms, "apr_rate", 1899)
        \* total_spending / 12, as a monthly flow
        monthly_spend == Times(Get(spending, "total_spending", 5000), Scale, 12)
        pd == _extract_pd_from_risk(risk)
        avg_balance == Times(credit_limit, 3, 10)
        revolving_balance == Times(avg_balance, 5, 10)
        interchange_revenue ==
            Times(monthly_spend, interchange_rate.n, interchange_rate.d)
        \* revolving_balance * (apr / 12), apr = apr_bps / 10000
        interest_revenue == Times(revolving_balance * apr_bps, Scale, 12 * 10000)
        perk_eligible_spend == Times(monthly_spend, 6, 10)
        perk_costs ==
            Times(perk_eligible_spend, perk_cost_multiplier.n, perk_cost_multiplier.d)
        \* pd * lgd * avg_balance / 12
        expected_loss ==
            Times(pd * lgd.n * avg_balance, Scale, 12 * PdScale * lgd.d)
        \* avg_balance * (cof_base / 12)
        funding_cost == Times(avg_balance * cof_base.n, Scale, 12 * cof_base.d)
        operations == ops_cost * Scale
        total_revenue == interchange_revenue + interest_revenue
        total_costs == perk_costs + expected_loss + funding_cost + operations
        profit == total_revenue - total_costs
        capital_requirement == Times(credit_limit, capital_ratio.n, capital_ratio.d)
        roe == IF capital_requirement > 0
               THEN Frac(profit * 12, capital_requirement * Scale)
               ELSE FracZero
        loss_rate == IF avg_balance > 0
                     THEN Frac(expected_loss * 12, avg_balance * Scale)
                     ELSE FracZero
    IN  [monthly_spend |-> monthly_spend,
         avg_balance |-> avg_balance,
         revolving_balance |-> revolving_balance,
         pd |-> pd,
         revenues |-> [interchange |-> interchange_revenue,
                       interest |-> interest_revenue,
                       total |-> total_revenue],
         costs |-> [perks |-> perk_costs,
                    expected_loss |-> expected_loss,
                    funding |-> funding_cost,
                    operations |-> operations,
                    total |-> total_costs],
         profit_monthly |-> profit,
         profit_annual |-> profit * 12,
         roe |-> roe,
         loss_rate |-> loss_rate,
         capital_requirement |-> capital_requirement]

----------------------------------------------------------------------------
(* Outcome of a call: a returned value or a raised exception               *)

Return(v) == [raised |-> FALSE, value |-> v]

Raise(e) == [raised |-> TRUE, error |-> e]

(* ChallengerAgent._run_stress_tests.                                      *)
(* The result carries the scenarios as the caller reads them when the      *)
(* call returns, and the base dict as the call leaves it.                  *)

\* sum(d.values()) of a costs dict
SumValues(costs) ==
    costs.perks + costs.expected_loss + costs.funding + costs.operations
        + costs.total

\* sum([v for k, v in d.items() if k != 'total'])
SumExceptTotal(costs) ==
    costs.perks + costs.expected_loss + costs.funding + costs.operations

ScenarioNames ==
    <<"spend_down_20pct", "default_up_1_5x", "cof_up_100bps", "perk_usage_maxed">>

_run_stress_tests(base) ==
    LET cap == base.capital_requirement
        \* Scenario 1: spend_stress = base.copy(); the nested dicts are shared
        revenues1 == [base.revenues EXCEPT !.interchange = Times(@, 8, 10)]
        costs1 == [base.costs EXCEPT !.perks = Times(@, 8, 10)]
        spend_profit ==
            revenues1.interchange + revenues1.interest - SumValues(costs1)
        spend_stress ==
            [base EXCEPT !.monthly_spend = Times(@, 8, 10),
                         !.profit_monthly = spend_profit,
                         !.roe = Frac(spend_profit * 12, cap * Scale)]
        \* Scenario 2
        costs2a == [costs1 EXCEPT !.expected_loss = Times(@, 15, 10)]
        costs2 == [costs2a EXCEPT !.total = SumExceptTotal(costs2a)]
        default_profit == revenues1.total - costs2.total
        default_stress ==
            [base EXCEPT !.pd = Times(@, 15, 10),
                         !.profit_monthly = default_profit,
                         !.roe = Frac(default_profit * 12, cap * Scale),
                         !.loss_rate = Frac(costs2.expected_loss * 12,
                                            base.avg_balance * Scale)]
        \* Scenario 3: cof_base + 0.01
        costs3a == [costs2 EXCEPT !.funding =
                       Times(base.avg_balance * (cof_base.n * 100 + cof_base.d),
                             Scale, 12 * cof_base.d * 100)]
        costs3 == [costs3a EXCEPT !.total = SumExceptTotal(costs3a)]
        cof_profit == revenues1.total - costs3.total
        cof_stress ==
            [base EXCEPT !.profit_monthly = cof_profit,
                         !.roe = Frac(cof_profit * 12, cap * Scale)]
        \* Scenario 4: base['monthly_spend'] * 0.9 * perk_cost_multiplier
        costs4a == [costs3 EXCEPT !.perks =
                       Times(Times(base.monthly_spend, 9, 10),
                             perk_cost_multiplier.n, perk_cost_multiplier.d)]
        costs4 == [costs4a EXCEPT !.total = SumExceptTotal(costs4a)]
        perk_profit == revenues1.total - costs4.total
        perk_stress ==
            [base EXCEPT !.profit_monthly = perk_profit,
                         !.roe = Frac(perk_profit * 12, cap * Scale)]
        \* what the shared objects hold when the call returns
        Shared(d) == [d EXCEPT !.revenues = revenues1, !.costs = costs4]
    IN  IF cap = 0
        THEN \* ZeroDivisionError at the first roe, after the first writes
             [raised |-> TRUE, error |-> "float division by zero",
              base |-> [base EXCEPT !.revenues = revenues1, !.costs = costs1]]
        ELSE [raised |-> FALSE,
              value |-> [spend_down_20pct |-> Shared(spend_stress),
                         default_up_1_5x |-> Shared(default_stress),
                         cof_up_100bps |-> Shared(cof_stress),
                         perk_usage_maxed |-> Shared(perk_stress)],
              base |-> Shared(base)]

----------------------------------------------------------------------------
(* ChallengerAgent._check_constraints                                      *)

Violation(constraint, required, actual, severity) ==
    [constraint |-> constraint, required |-> required, actual |-> actual,
     severity |-> severity]

\* f'stress_roe_{scenario_name}'
StressConstraint(scenario_name) ==
    CASE scenario_name = "spend_down_20pct" -> "stress_roe_spend_down_20pct"
      [] scenario_name = "default_up_1_5x" -> "stress_roe_default_up_1_5x"
      [] scenario_name = "cof_up_100bps" -> "stress_roe_cof_up_100bps"
      [] scenario_name = "perk_usage_maxed" -> "stress_roe_perk_usage_maxed"

RECURSIVE StressViolations(_, _)
StressViolations(stress, i) ==
    IF i > Len(ScenarioNames) THEN <<>>
    ELSE LET scenario_name == ScenarioNames[i]
             scenario == stress[scenario_name]
             stress_floor == FracMul(min_roe, Frac(8, 10))
         IN  (IF FracLT(scenario.roe, stress_floor)
              THEN <<Violation(StressConstraint(scenario_name), stress_floor,
                               scenario.roe, "medium")>>
              ELSE <<>>)
             \o StressViolations(stress, i + 1)

_check_constraints(base, stress) ==
    (IF FracLT(base.roe, min_roe)
     THEN <<Violation("min_roe", min_roe, base.roe, "high")>>
     ELSE <<>>)
    \o
    (IF FracLT(max_loss_rate, base.loss_rate)
     THEN <<Violation("max_loss_rate", max_loss_rate, base.loss_rate, "high")>>
     ELSE <<>>)
    \o
    (IF base.costs.perks > max_perk_budget_monthly * Scale
     THEN <<Violation("max_perk_budget", max_perk_budget_monthly * Scale,
                      base.costs.perks, "medium")>>
     ELSE <<>>)
    \o StressViolations(stress, 1)

----------------------------------------------------------------------------
(* ChallengerAgent._generate_counter_offer and _estimate_improvement       *)

Min(a, b) == IF a < b THEN a ELSE b

Max(a, b) == IF a > b THEN a ELSE b

\* Mentions taking 'perk' for the name of the perk-budget constraint only
Mentions_budget_only(sub, constraint) ==
    CASE sub = "roe" ->
           constraint \in {"min_roe", "stress_roe_spend_down_20pct",
                           "stress_roe_default_up_1_5x",
                           "stress_roe_cof_up_100bps",
                           "stress_roe_perk_usage_maxed"}
      [] sub = "loss" -> constraint \in {"max_loss_rate"}
      [] sub = "perk" -> constraint \in {"max_perk_budget"}

\* Python's  sub in constraint  on the constraint names the agent produces
Mentions(sub, constraint) ==
    CASE sub = "roe" ->
           constraint \in {"min_roe", "stress_roe_spend_down_20pct",
                           "stress_roe_default_up_1_5x",
                           "stress_roe_cof_up_100bps",
                           "stress_roe_perk_usage_maxed"}
      [] sub = "loss" -> constraint \in {"max_loss_rate"}
      [] sub = "perk" ->
           constraint \in {"max_perk_budget", "stress_roe_perk_usage_maxed"}

\* d[key] = value on a dict
Put(d, key, value) == (key :> value) @@ d

\* IncreasedApr raising by 50 bps for each violation
IncreasedApr_half_steps(apr_rate, n_roe_violations) ==
    LET apr_increase == Min(200, Max(50, n_roe_violations * 50))
    IN  Min(max_apr, apr_rate + apr_increase)

\* lines 268-269: the APR after the increase, capped at max_apr
IncreasedApr(apr_rate, n_roe_violations) ==
    LET apr_increase == Min(200, Max(50, n_roe_violations * 100))
    IN  Min(max_apr, apr_rate + apr_increase)

\* ReducedLimit without the floor of 5000
ReducedLimit_no_floor(credit_limit) ==
    LET limit_reduction == Min(5000, Max(1000, (credit_limit * 2) \div 10))
    IN  credit_limit - limit_reduction

\* lines 275-276: the credit limit after the cut, floored at 5000;
\* int(credit_limit * 0.2) truncates
ReducedLimit(credit_limit) ==
    LET limit_reduction == Min(5000, Max(1000, (credit_limit * 2) \div 10))
    IN  Max(5000, credit_limit - limit_reduction)

_generate_counter_offer(original, violations, base) ==
    LET IsRoe(v) == Mentions("roe", v.constraint)
        IsLoss(v) == Mentions("loss", v.constraint)
        IsPerk(v) == Mentions("perk", v.constraint)
        roe_violations == SelectSeq(violations, IsRoe)
        loss_violations == SelectSeq(violations, IsLoss)
        perk_violations == SelectSeq(violations, IsPerk)
        apr_increase == Min(200, Max(50, Len(roe_violations) * 100))
        \* int(original['credit_limit'] * 0.2)
        limit_reduction ==
            Min(5000, Max(1000, (original["credit_limit"] * 2) \div 10))
        counter1 ==
            IF roe_violations # <<>>
            THEN Put(original, "apr_rate",
                     IncreasedApr(original["apr_rate"], Len(roe_violations)))
            ELSE original
        adjustments1 ==
            IF roe_violations # <<>>
            THEN <<Text("APR increased by {} bps to improve ROE", <<apr_increase>>)>>
            ELSE <<>>
        counter2 ==
            IF loss_violations # <<>>
            THEN Put(counter1, "credit_limit",
                     ReducedLimit(original["credit_limit"]))
            ELSE counter1
        adjustments2 ==
            IF loss_violations # <<>>
            THEN Append(adjustments1,
                        Text("Credit limit reduced by ${} to manage loss exposure",
                             <<limit_reduction>>))
            ELSE adjustments1
        counter3 ==
            IF perk_violations # <<>> /\ "promotional_offers" \in DOMAIN counter2
            THEN Put(counter2, "promotional_offers",
                     SubSeq(counter2["promotional_offers"], 1,
                            Min(1, Len(counter2["promotional_offers"]))))
            ELSE counter2
        adjustments3 ==
            IF perk_violations # <<>>
            THEN Append(adjustments2,
                        Text("Reduced promotional benefits to control perk costs",
                             <<>>))
            ELSE adjustments2
    IN  IF roe_violations # <<>> /\ "apr_rate" \notin DOMAIN original
        THEN Raise("'apr_rate'")
        ELSE IF loss_violations # <<>> /\ "credit_limit" \notin DOMAIN original
        THEN Raise("'credit_limit'")
        ELSE Return(Put(counter3, "adjustments", adjustments3))

\* the two estimates are plain multiples of the basis-point change:
\* estimated_roe_improvement in thousandths, the profit estimate in dollars
_estimate_improvement(counter, original) ==
    LET apr_improvement ==
            Get(counter, "apr_rate", 0) - Get(original, "apr_rate", 0)
        limit_change ==
            Get(counter, "credit_limit", 0) - Get(original, "credit_limit", 0)
    IN  [apr_increase_bps |-> apr_improvement,
         credit_limit_change |-> limit_change,
         estimated_roe_improvement |-> Frac(apr_improvement * 2, 1000),
         estimated_profit_improvement_monthly |-> apr_improvement * 5]

----------------------------------------------------------------------------
(* ChallengerAgent._make_decision                                          *)

\* IsHigh taking a medium severity for a high one as well
IsHigh_medium_too(v) == Get(v, "severity", "") \in {"high", "medium"}

\* the filter of _make_decision: v['severity'] == 'high'
IsHigh(v) == Get(v, "severity", "") = "high"

\* DecisionBranch approving with up to two violations
DecisionBranch_two_allowed(n_high, n_violations) ==
    IF n_high = 0 /\ n_violations <= 2 THEN "approve_as_is"
    ELSE IF n_high <= 2 THEN "counter_offer"
    ELSE "reject"

\* DecisionBranch rejecting from two high-severity violations on
\* (elif len(high_severity_violations) < 2)
DecisionBranch_reject_at_two(n_high, n_violations) ==
    IF n_high = 0 /\ n_violations <= 1 THEN "approve_as_is"
    ELSE IF n_high < 2 THEN "counter_offer"
    ELSE "reject"

\* the if / elif / else of _make_decision: the branch taken
DecisionBranch(n_high, n_violations) ==
    IF n_high = 0 /\ n_violations <= 1 THEN "approve_as_is"
    ELSE IF n_high <= 2 THEN "counter_offer"
    ELSE "reject"

_make_decision(base, stress, violations, original_terms) ==
    LET high_severity_violations == SelectSeq(violations, IsHigh)
        counter == _generate_counter_offer(original_terms, violations, base)
        branch == DecisionBranch(Len(high_severity_violations), Len(violations))
    IN  IF branch = "approve_as_is"
        THEN Return([action |-> "approve_as_is",
                     reason |-> Text("Proposal meets all key constraints and stress tests",
                                     <<>>),
                     profit_margin |-> base.profit_monthly,
                     roe |-> base.roe])
        ELSE IF branch = "counter_offer"
        THEN IF counter.raised
             THEN counter
             ELSE Return([action |-> "counter_offer",
                          reason |-> Text("Adjustments needed due to {} constraint violations",
                                          <<Len(violations)>>),
                          violations |-> violations,
                          counter_proposal |-> counter.value,
                          expected_improvement |->
                              _estimate_improvement(counter.value, original_terms)])
        ELSE Return([action |-> "reject",
                     reason |-> Text("Too many constraint violations ({} high severity)",
                                     <<Len(high_severity_violations)>>),
                     violations |-> violations])

----------------------------------------------------------------------------
(* ChallengerAgent.analyze_proposal runs as four steps, one per call it    *)
(* makes (the actions below); these are its two ways of ending.            *)
(* analysis_timestamp, the wall clock at the time of the call, is left out *)
(* of the result.                                                          *)

\* the except branch answering with an action outside the three decisions
AnalysisFailed_error_action(error) ==
    [agent |-> "challenger-agent",
     error |-> error,
     decision |-> [action |-> "error", reason |-> Text("Analysis failed", <<>>)]]

AnalysisFailed(error) ==
    [agent |-> "challenger-agent",
     error |-> error,
     decision |-> [action |-> "reject", reason |-> Text("Analysis failed", <<>>)]]

\* the except branch with a narrower except clause: the exception
\* propagates to challenge_terms, which answers 500
ExceptBranch_reraise(error) == [status |-> 500, body |-> [error |-> error]]

\* lines 73-79, and line 348 of challenge_terms: the response when a step
\* of analyze_proposal raised
ExceptBranch(error) == [status |-> 200, body |-> AnalysisFailed(error)]

----------------------------------------------------------------------------
(* Requests                                                                *)

MaxPromos == 2

MaxRuns == 2

\* the dicts with at most the one key, its value drawn from Values
OptField(key, Values) == {<<>>} \cup {key :> v : v \in Values}

\* apr_rate in basis points: the policy range 12.99 .. 29.99 and beyond it
AprRates == {1299, 1899, 2399, 2999, 3500, 7000}

CreditLimits == {0, 3000, 15000, 30000}

PromoNames == <<"intro_apr", "bonus_cashback", "fee_waiver", "bonus_points">>

\* the lists of the first n promotions, n up to MaxPromos
PromoLists == {SubSeq(PromoNames, 1, n) : n \in 0..MaxPromos}

TermsProposals ==
    {a @@ l @@ p : a \in OptField("apr_rate", AprRates),
                   l \in OptField("credit_limit", CreditLimits),
                   p \in OptField("promotional_offers", PromoLists)}

RiskScores == {20, 21, 40, 41, 50, 60, 61, 80, 81}

RiskDatas == {"risk_score" :> v : v \in RiskScores}

TotalSpendings == {0, 20000, 28000, 29000, 60000}

SpendingDatas == {"total_spending" :> v : v \in TotalSpendings}

\* the JSON bodies: each of the three keys present or not
RequestDatas ==
    {t @@ r @@ sp : t \in OptField("terms_proposal", TermsProposals),
                    r \in OptField("risk_assessment", RiskDatas),
                    sp \in OptField("spending_data", SpendingDatas)}

----------------------------------------------------------------------------
(* The Flask route /challenge-terms and the analyze_proposal call it       *)
(* makes.  Each request gets a ChallengerAgent of its own and nothing      *)
(* outlives the request, so a behaviour is one request and its response.   *)

NoResponse == [status |-> 0, body |-> <<>>]

\* challenge_terms up to the first step of analyze_proposal (line 51)
challenge_terms(data) ==
    /\ pc = "idle"
    /\ request' = data
    /\ IF data = <<>> \/ "terms_proposal" \notin DOMAIN data
       THEN /\ response' =
                 [status |-> 400,
                  body |-> [error |-> "Missing terms_proposal in request"]]
            /\ pc' = "done"
            /\ UNCHANGED base_scenario
       ELSE /\ base_scenario' =
                 _build_base_scenario(data["terms_proposal"],
                                      Get(data, "risk_assessment", <<>>),
                                      Get(data, "spending_data", <<>>))
            /\ pc' = "built"
            /\ UNCHANGED response
    /\ UNCHANGED <<stress_results, constraint_violations, base_dict, runs,
                   risk_vars, conc_vars, gateway_vars>>

\* analyze_proposal line 54; the call writes into base_scenario
run_stress_tests_step ==
    /\ pc = "built"
    /\ LET stress == _run_stress_tests(base_scenario)
       IN  /\ base_scenario' = stress.base
           /\ IF stress.raised
              THEN /\ response' = ExceptBranch(stress.error)
                   /\ pc' = "done"
                   /\ UNCHANGED stress_results
              ELSE /\ stress_results' = stress.value
                   /\ pc' = "stressed"
                   /\ UNCHANGED response
    /\ UNCHANGED <<request, constraint_violations, base_dict, runs,
                   risk_vars, conc_vars, gateway_vars>>

\* analyze_proposal line 57
check_constraints_step ==
    /\ pc = "stressed"
    /\ constraint_violations' = _check_constraints(base_scenario, stress_results)
    /\ pc' = "checked"
    /\ UNCHANGED <<request, base_scenario, stress_results, response,
                   base_dict, runs, risk_vars, conc_vars, gateway_vars>>

\* analyze_proposal lines 60-71 and the jsonify of challenge_terms
make_decision_step ==
    /\ pc = "checked"
    /\ LET decision == _make_decision(base_scenario, stress_results,
                                      constraint_violations,
                                      request["terms_proposal"])
       IN  response' =
             IF decision.raised
             THEN ExceptBranch(decision.error)
             ELSE [status |-> 200,
                   body |-> [agent |-> "challenger-agent",
                             original_proposal |-> request["terms_proposal"],
                             base_economics |-> base_scenario,
                             stress_test_results |-> stress_results,
                             constraint_violations |-> constraint_violations,
                             decision |-> decision.value,
                             confidence |-> 95]]
    /\ pc' = "done"
    /\ UNCHANGED <<request, base_scenario, stress_results,
                   constraint_violations, base_dict, runs,
                   risk_vars, conc_vars, gateway_vars>>

(* A caller of the scenario engine alone: it builds a base scenario and    *)
(* runs _run_stress_tests on that same dict repeatedly, keeping what each  *)
(* call returned.                                                          *)

BuildBase(terms, risk, spending) ==
    /\ base_dict = <<>>
    /\ base_dict' = _build_base_scenario(terms, risk, spending)
    /\ runs' = <<>>
    /\ UNCHANGED <<handler_vars, risk_vars, conc_vars, gateway_vars>>

RunStress ==
    /\ base_dict # <<>>
    /\ Len(runs) < MaxRuns
    /\ LET stress == _run_stress_tests(base_dict)
       IN  /\ base_dict' = stress.base
           /\ runs' = Append(runs, IF stress.raised
                                   THEN Raise(stress.error)
                                   ELSE Return(stress.value))
    /\ UNCHANGED <<handler_vars, risk_vars, conc_vars, gateway_vars>>

----------------------------------------------------------------------------
(* Part 2: the risk agent (boa-ai-agents/risk-agent/app.py).               *)
(*                                                                         *)
(* Arithmetic.  Transaction amounts and balances are whole dollars.  A     *)
(* mean of them (monthly_net_inflow, avg_balance, a recurring expense) is  *)
(* the exact fraction [n, d].  A dimensionless ratio (income_stability,    *)
(* expense_ratio, payment_consistency, min_balance over avg_balance, the   *)
(* confidence of an eligibility entry) is held in units of 1/RatioScale,   *)
(* rounded down where the code's quotient or square root is not a          *)
(* multiple of the unit.  The weighted sums (the score before int(), the   *)
(* overall confidence) are exact fractions of these values.  A date is     *)
(* the triple <<year, month, day>> of its ISO string, ordered as the       *)
(* strings are.                                                            *)
(***************************************************************************)

RatioScale == 100 * 100

FracInt(x) == [n |-> x, d |-> 1]

FracLE(a, b) == ~FracLT(b, a)

FracAdd(a, b) ==
    LET g == GCD(a.d, b.d)
    IN  Frac(a.n * (b.d \div g) + b.n * (a.d \div g), (a.d \div g) * b.d)

\* a / b for b > 0
FracDiv(a, b) == Frac(a.n * b.d, a.d * b.n)

\* Python's min(a, b) and max(a, b): the first argument unless the second
\* is strictly smaller (larger)
FracMin(a, b) == IF FracLT(b, a) THEN b ELSE a

FracMax(a, b) == IF FracLT(a, b) THEN b ELSE a

\* int(x): truncation toward zero
int(a) == IF a.n >= 0 THEN a.n \div a.d ELSE -((-a.n) \div a.d)

\* a / b (b > 0) in units of 1/RatioScale, rounded down
Ratio(a, b) ==
    LET q == FracDiv(a, b)
        \* the fraction's quotient two digits at a time
        t1 == (q.n % q.d) * 100
        t2 == (t1 % q.d) * 100
    IN  (q.n \div q.d) * RatioScale + (t1 \div q.d) * 100 + (t2 \div q.d)

RECURSIVE SumSeq(_)
\* sum(xs), added up by halves
SumSeq(xs) ==
    IF xs = <<>> THEN 0
    ELSE IF Len(xs) = 1 THEN xs[1]
    ELSE LET half == Len(xs) \div 2
         IN  SumSeq(SubSeq(xs, 1, half)) + SumSeq(SubSeq(xs, half + 1, Len(xs)))

\* statistics.mean of a non-empty list of integers
mean(xs) == Frac(SumSeq(xs), Len(xs))

RECURSIVE SquaredDeviations(_, _)
SquaredDeviations(xs, m) ==
    IF xs = <<>> THEN FracZero
    ELSE LET dev == FracAdd(FracInt(Head(xs)), [n |-> -m.n, d |-> m.d])
         IN  FracAdd(FracMul(dev, dev), SquaredDeviations(Tail(xs), m))

\* the square of statistics.stdev: the sample variance of two or more values
variance(xs) ==
    FracDiv(SquaredDeviations(xs, mean(xs)), FracInt(Len(xs) - 1))

RECURSIVE IsqrtIn(_, _, _)
\* the largest k in lo..hi with k * k <= x, given lo * lo <= x
IsqrtIn(x, lo, hi) ==
    IF lo = hi THEN lo
    ELSE LET mid == (lo + hi + 1) \div 2
         IN  IF mid * mid <= x THEN IsqrtIn(x, mid, hi)
             ELSE IsqrtIn(x, lo, mid - 1)

\* the square root of the fraction w, 0 <= w < 1, in units of 1/RatioScale,
\* rounded up: the least k with (k / RatioScale)^2 >= w
CeilSqrt(w) ==
    \* w * RatioScale^2 rounded up, by long division two digits at a time
    LET t1 == w.n * 100
        t2 == (t1 % w.d) * 100
        t3 == (t2 % w.d) * 100
        t4 == (t3 % w.d) * 100
        x  == (((t1 \div w.d) * 100 + (t2 \div w.d)) * 100
                  + (t3 \div w.d)) * 100 + (t4 \div w.d)
              + (IF t4 % w.d = 0 THEN 0 ELSE 1)
    IN  IF x = 0 THEN 0 ELSE IsqrtIn(x - 1, 0, RatioScale) + 1

----------------------------------------------------------------------------
(* RiskAnalyzer.__init__: the weights and the tiers, in dict order          *)

score_weights ==
    [income_stability |-> Frac(25, 100),
     cash_flow |-> Frac(20, 100),
     balance_management |-> Frac(20, 100),
     payment_consistency |-> Frac(15, 100),
     expense_ratio |-> Frac(20, 100)]

\* a tier table whose Silver band stops one short of Gold
tiers_gap ==
    <<[tier |-> "Bronze", min_score |-> 0, max_score |-> 599],
      [tier |-> "Silver", min_score |-> 600, max_score |-> 698],
      [tier |-> "Gold", min_score |-> 700, max_score |-> 850]>>

tiers ==
    <<[tier |-> "Bronze", min_score |-> 0, max_score |-> 599],
      [tier |-> "Silver", min_score |-> 600, max_score |-> 699],
      [tier |-> "Gold", min_score |-> 700, max_score |-> 850]>>

\* the module-level  analyzer = RiskAnalyzer()  that every request uses
RiskAnalyzer == [score_weights |-> score_weights, tiers |-> tiers]

----------------------------------------------------------------------------
(* RiskAnalyzer.extract_features and its helpers                           *)

\* default features with a balance too low for an overdraft line
_default_features_low_balance ==
    [monthly_net_inflow |-> FracInt(3200),
     income_stability |-> 8500,
     avg_balance |-> FracInt(125),
     min_balance |-> 200,
     nsf_events |-> 0,
     expense_ratio |-> 7500,
     payment_consistency |-> 9000,
     category_spending |->
        [dining |-> 180, grocery |-> 320, utilities |-> 200, gas |-> 120,
         shopping |-> 150]]

_default_features ==
    [monthly_net_inflow |-> FracInt(3200),
     income_stability |-> 8500,
     avg_balance |-> FracInt(1250),
     min_balance |-> 200,
     nsf_events |-> 0,
     expense_ratio |-> 7500,
     payment_consistency |-> 9000,
     category_spending |->
        [dining |-> 180, grocery |-> 320, utilities |-> 200,
         gas |-> 120, shopping |-> 150]]

\* the order of two ISO date strings
DateLE(a, b) ==
    \/ a[1] < b[1]
    \/ a[1] = b[1] /\ a[2] < b[2]
    \/ a[1] = b[1] /\ a[2] = b[2] /\ a[3] <= b[3]

\* strftime('%Y-%m') of a date
MonthKey(date) == <<date[1], date[2]>>

\* the k-th smallest of a set of indexes
Nth(indexes, k) ==
    CHOOSE i \in indexes : Cardinality({j \in indexes : j < i}) = k - 1

\* sorted(transactions, key=lambda x: x['date']); the sort is stable: a
\* record comes after those of an earlier date and after the earlier
\* records of its own date
SortedByDate(txs) ==
    LET Before(j, i) ==
            \/ ~DateLE(txs[i]["date"], txs[j]["date"])
            \/ txs[i]["date"] = txs[j]["date"] /\ j < i
        \* each index with the place its record takes
        placed == {<<1 + Cardinality({j \in 1..Len(txs) : Before(j, i)}), i>> :
                      i \in 1..Len(txs)}
    IN  [k \in 1..Len(txs) |-> txs[(CHOOSE p \in placed : p[1] = k)[2]]]

\* the keys of monthly_data, in the order in which the loop creates them:
\* the month of each record that is the first of its month
MonthKeys(txs) ==
    LET key == [i \in 1..Len(txs) |-> MonthKey(txs[i]["date"])]
        first == {i \in 1..Len(txs) : \A j \in 1..(i - 1) : key[j] # key[i]}
    IN  [k \in 1..Cardinality(first) |-> key[Nth(first, k)]]

Amounts(txs) == [i \in 1..Len(txs) |-> txs[i]["amount"]]

_calculate_monthly_inflows(transactions) ==
    LET keys == MonthKeys(transactions)
    IN  [i \in 1..Len(keys) |->
            LET InMonth(tx) == MonthKey(tx["date"]) = keys[i]
            IN  SumSeq(Amounts(SelectSeq(transactions, InMonth)))]

\* the window taken from the oldest end: transactions[:90]
Last90_oldest(txs) == SubSeq(txs, 1, Min(90, Len(txs)))

\* transactions[-90:]
Last90(txs) == SubSeq(txs, Max(1, Len(txs) - 89), Len(txs))

_estimate_daily_balances(transactions, current_balance) ==
    LET last == Last90(transactions)
        n    == Len(last)
    IN  [k \in 1..(n + 1) |->
            current_balance - SumSeq(Amounts(SubSeq(last, n - k + 2, n)))]

\* the words that lines 230-234 and 266-274 look for and that occur in
\* desc.upper(), for the descriptions of the transactions below
WordsIn(desc) ==
    CASE desc = "Rent" -> {"RENT"}
      [] desc = "Electric Co" -> {"ELECTRIC"}
      [] desc = "Gas Company" -> {"GAS", "GAS COMPANY"}
      [] desc = "Wireless Phone" -> {"PHONE", "WIRELESS"}
      [] desc = "Starbucks" -> {"STARBUCKS"}
      [] OTHER -> {}

IsExpense(tx) == tx["amount"] < 0

\* the keys of by_description, in the order in which the loop creates them:
\* the description of each record that is the first with it
Descriptions(txs) ==
    LET desc == [i \in 1..Len(txs) |-> txs[i]["description"]]
        first == {i \in 1..Len(txs) : \A j \in 1..(i - 1) : desc[j] # desc[i]}
    IN  [k \in 1..Cardinality(first) |-> desc[Nth(first, k)]]

RECURSIVE RecurringPatterns(_, _, _)
\* recurring_patterns after the first i descriptions of lines 227-235
RecurringPatterns(expense_transactions, descs, i) ==
    IF i = 0 THEN <<>>
    ELSE LET before == RecurringPatterns(expense_transactions, descs, i - 1)
             Described(tx) == tx["description"] = descs[i]
             amounts ==
                LET paid == Amounts(SelectSeq(expense_transactions, Described))
                IN  [k \in 1..Len(paid) |-> Abs(paid[k])]
             words == WordsIn(descs[i])
         IN  IF Len(amounts) < 3 THEN before
             ELSE IF words \cap {"RENT", "MORTGAGE"} # {}
             THEN Put(before, "housing", mean(amounts))
             ELSE IF words \cap {"ELECTRIC", "GAS", "WATER", "UTILITIES"} # {}
             THEN Put(before, "utilities",
                      FracAdd(Get(before, "utilities", FracZero), mean(amounts)))
             ELSE IF words \cap {"PHONE", "WIRELESS"} # {}
             THEN Put(before, "phone", mean(amounts))
             ELSE before

_identify_recurring_expenses(transactions) ==
    LET expense_transactions == SelectSeq(transactions, IsExpense)
        descs == Descriptions(expense_transactions)
    IN  RecurringPatterns(expense_transactions, descs, Len(descs))

\* sum(recurring_expenses.values())
TotalMonthlyExpenses(recurring_expenses) ==
    FracAdd(Get(recurring_expenses, "housing", FracZero),
            FracAdd(Get(recurring_expenses, "utilities", FracZero),
                    Get(recurring_expenses, "phone", FracZero)))

\* _calculate_payment_consistency answering 0.8 to the process's first
\* request only and 0.9 from then on
_calculate_payment_consistency_warms_up(transactions) ==
    IF clock = 0 THEN 8000 ELSE 9000

\* _calculate_payment_consistency without the look at the recurring expenses
_calculate_payment_consistency_always_good(transactions) == 9000

_calculate_payment_consistency(transactions) ==
    IF _identify_recurring_expenses(transactions) = <<>> THEN 8000 ELSE 9000

\* the category that lines 266-277 charge an expense to
Category(desc) ==
    LET words == WordsIn(desc)
    IN  IF words \cap {"RESTAURANT", "CHIPOTLE", "STARBUCKS", "CAFE"} # {}
        THEN "dining"
        ELSE IF words \cap {"SAFEWAY", "WHOLE FOODS", "GROCERY", "MARKET"} # {}
        THEN "grocery"
        ELSE IF words \cap {"SHELL", "CHEVRON", "GAS", "FUEL"} # {}
        THEN "gas"
        ELSE IF words \cap {"AMAZON", "TARGET", "WALMART"} # {}
        THEN "shopping"
        ELSE IF words \cap {"ELECTRIC", "GAS COMPANY", "WATER", "PHONE"} # {}
        THEN "utilities"
        ELSE "other"

_categorize_spending(transactions) ==
    [c \in {"dining", "grocery", "gas", "shopping", "utilities",
            "entertainment", "other"} |->
        LET Charged(tx) == IsExpense(tx) /\ Category(tx["description"]) = c
            spent == Amounts(SelectSeq(transactions, Charged))
        IN  -SumSeq(spent)]

\* lines 130-134: max(0, 1 - stdev / max(mean, 1)) of the monthly inflows
IncomeStability(monthly_inflows, avg_monthly_inflow) ==
    IF Len(monthly_inflows) <= 1 THEN RatioScale
    ELSE LET m == FracMax(avg_monthly_inflow, FracInt(1))
             w == FracDiv(variance(monthly_inflows), FracMul(m, m))
         IN  IF FracLE(FracInt(1), w) THEN 0 ELSE RatioScale - CeilSqrt(w)

\* ExpenseRatio without the guard on a non-positive inflow
ExpenseRatio_unguarded(total_monthly_expenses, avg_monthly_inflow) ==
    Ratio(total_monthly_expenses, FracMax(avg_monthly_inflow, FracInt(1)))

\* line 148: total / max(avg, 1) if avg > 0 else 1.0
ExpenseRatio(total_monthly_expenses, avg_monthly_inflow) ==
    IF FracLT(FracZero, avg_monthly_inflow)
    THEN Ratio(total_monthly_expenses, FracMax(avg_monthly_inflow, FracInt(1)))
    ELSE RatioScale

\* a list element lacks the key that the code subscripts it with
Lacks(transactions, key) ==
    \E i \in 1..Len(transactions) : key \notin DOMAIN transactions[i]

extract_features(transactions, balance_data) ==
    IF transactions = <<>> THEN Return(_default_features)
    \* line 126: the sort key reads x['date'] of every element
    ELSE IF Lacks(transactions, "date") THEN Raise("'date'")
    \* line 197: _calculate_monthly_inflows reads tx['amount']
    ELSE IF Lacks(transactions, "amount") THEN Raise("'amount'")
    \* line 221: _identify_recurring_expenses reads tx['description'] of
    \* every transaction with a negative amount
    ELSE IF Lacks(SelectSeq(transactions, IsExpense), "description")
    THEN Raise("'description'")
    ELSE
    LET sorted_transactions == SortedByDate(transactions)
        monthly_inflows == _calculate_monthly_inflows(sorted_transactions)
        avg_monthly_inflow ==
            IF monthly_inflows # <<>> THEN mean(monthly_inflows) ELSE FracZero
        current_balance == Get(balance_data, "balance", 0)
        balance_history ==
            _estimate_daily_balances(sorted_transactions, current_balance)
        recurring_expenses == _identify_recurring_expenses(sorted_transactions)
    IN  Return(
         [monthly_net_inflow |-> avg_monthly_inflow,
          income_stability |->
             IncomeStability(monthly_inflows, avg_monthly_inflow),
          avg_balance |-> mean(balance_history),
          min_balance |->
             CHOOSE b \in {balance_history[k] : k \in DOMAIN balance_history} :
                \A k \in DOMAIN balance_history : b <= balance_history[k],
          nsf_events |->
             Cardinality({k \in DOMAIN balance_history : balance_history[k] < 0}),
          expense_ratio |->
             ExpenseRatio(TotalMonthlyExpenses(recurring_expenses),
                          avg_monthly_inflow),
          payment_consistency |->
             _calculate_payment_consistency(sorted_transactions),
          category_spending |-> _categorize_spending(sorted_transactions)])

----------------------------------------------------------------------------
(* RiskAnalyzer.calculate_risk_score                                       *)

\* lines 295-307 with the NSF penalty left unfloored
balance_management_no_floor(features) ==
    LET balance_score ==
            IF FracLT(FracInt(1000), features.avg_balance) THEN 750
            ELSE IF FracLT(FracInt(500), features.avg_balance) THEN 650
            ELSE IF FracLT(FracInt(100), features.avg_balance) THEN 550
            ELSE 400
    IN  balance_score - features.nsf_events * 50

\* lines 295-307: scores['balance_management']
balance_management(features) ==
    LET balance_score ==
            IF FracLT(FracInt(1000), features.avg_balance) THEN 750
            ELSE IF FracLT(FracInt(500), features.avg_balance) THEN 650
            ELSE IF FracLT(FracInt(100), features.avg_balance) THEN 550
            ELSE 400
    IN  Max(300, balance_score - features.nsf_events * 50)

\* the scores dict of lines 283-321
SubScores(features) ==
    [income_stability |->
        FracMin(FracInt(850), Frac(features.income_stability * 850, RatioScale)),
     cash_flow |->
        IF FracLT(FracZero, features.monthly_net_inflow)
        THEN FracMin(FracInt(850),
                     FracAdd(FracMul(FracDiv(features.monthly_net_inflow,
                                             FracInt(2000)),
                                     FracInt(400)),
                             FracInt(450)))
        ELSE FracInt(300),
     balance_management |-> FracInt(balance_management(features)),
     payment_consistency |->
        Frac(features.payment_consistency * 850, RatioScale),
     expense_ratio |->
        IF features.expense_ratio < 3000 THEN FracInt(800)
        ELSE IF features.expense_ratio < 5000 THEN FracInt(700)
        ELSE IF features.expense_ratio < 8000 THEN FracInt(600)
        ELSE FracInt(400)]

ScoreKeys ==
    <<"income_stability", "cash_flow", "balance_management",
      "payment_consistency", "expense_ratio">>

RECURSIVE WeightedSum(_, _, _)
\* line 324: the sum over the first i keys of scores
WeightedSum(scores, weights, i) ==
    IF i = 0 THEN FracZero
    ELSE FracAdd(WeightedSum(scores, weights, i - 1),
                 FracMul(scores[ScoreKeys[i]], weights[ScoreKeys[i]]))

calculate_risk_score(self, features) ==
    int(WeightedSum(SubScores(features), self.score_weights, Len(ScoreKeys)))

----------------------------------------------------------------------------
(* RiskAnalyzer.determine_tier                                             *)

RECURSIVE MatchingTier(_, _, _)
\* the place in the table of the first tier from place i on whose range
\* holds the score; 0 when the loop ends without returning
MatchingTier(table, score, i) ==
    IF i > Len(table) THEN 0
    ELSE IF table[i].min_score <= score /\ score <= table[i].max_score THEN i
    ELSE MatchingTier(table, score, i + 1)

determine_tier(self, score) ==
    LET i == MatchingTier(self.tiers, score, 1)
    IN  IF i = 0 THEN "Bronze" ELSE self.tiers[i].tier

----------------------------------------------------------------------------
(* RiskAnalyzer.assess_eligibility; APRs in basis points                   *)

credit_card(tier) ==
    IF tier = "Gold"
    THEN [eligible |-> TRUE, limit_range |-> <<4000, 8000>>,
          apr_range |-> <<1999, 2299>>, confidence |-> 9500]
    ELSE IF tier = "Silver"
    THEN [eligible |-> TRUE, limit_range |-> <<1500, 4000>>,
          apr_range |-> <<2299, 2699>>, confidence |-> 8500]
    ELSE [eligible |-> TRUE, limit_range |-> <<500, 1500>>,
          apr_range |-> <<2699, 2999>>, confidence |-> 7000]

\* lines 361-382 with the NSF test dropped from the gate
overdraft_line_ignores_nsf(features, tier) ==
    IF FracLT(FracInt(200), features.avg_balance)
    THEN IF tier = "Gold"
         THEN [eligible |-> TRUE, limit_range |-> <<300, 700>>,
               apr_range |-> <<1799, 2099>>, confidence |-> 9000]
         ELSE [eligible |-> TRUE, limit_range |-> <<100, 300>>,
               apr_range |-> <<2099, 2499>>, confidence |-> 7500]
    ELSE [eligible |-> FALSE,
          reason |-> "Insufficient balance history or NSF events",
          confidence |-> 6000]

\* lines 361-382
overdraft_line(features, tier) ==
    IF features.nsf_events = 0 /\ FracLT(FracInt(200), features.avg_balance)
    THEN IF tier = "Gold"
         THEN [eligible |-> TRUE, limit_range |-> <<300, 700>>,
               apr_range |-> <<1799, 2099>>, confidence |-> 9000]
         ELSE [eligible |-> TRUE, limit_range |-> <<100, 300>>,
               apr_range |-> <<2099, 2499>>, confidence |-> 7500]
    ELSE [eligible |-> FALSE,
          reason |-> "Insufficient balance history or NSF events",
          confidence |-> 6000]

bnpl(features) ==
    IF FracLT(FracInt(1000), features.monthly_net_inflow)
    THEN [eligible |-> TRUE, limit_range |-> <<250, 1000>>,
          confidence |-> 8500]
    ELSE [eligible |-> FALSE, reason |-> "Insufficient income",
          confidence |-> 6000]

assess_eligibility(features, score, tier) ==
    [credit_card |-> credit_card(tier),
     overdraft_line |-> overdraft_line(features, tier),
     bnpl |-> bnpl(features)]

----------------------------------------------------------------------------
(* RiskAnalyzer.analyze_risk, lines 417-441                                *)

\* min_balance / max(avg_balance, 1)
BalanceCover(features) ==
    Ratio(FracInt(features.min_balance),
          FracMax(features.avg_balance, FracInt(1)))

risk_factors(features, months) ==
    [income_stability |-> features.income_stability,
     balance_volatility |-> RatioScale - BalanceCover(features),
     expense_ratio |-> features.expense_ratio,
     nsf_frequency |-> Frac(features.nsf_events, Max(months, 1)),
     payment_reliability |-> features.payment_consistency]

\* lines 427-432: 0.3, 0.25, 0.25 and 0.2 are 6, 5, 5 and 4 twentieths
confidence(features, factors) ==
    FracMin(Frac(95, 100),
            Frac(6 * features.income_stability
                   + 5 * (RatioScale - factors.balance_volatility)
                   + 5 * (RatioScale - Min(RatioScale, features.expense_ratio))
                   + 4 * features.payment_consistency,
                 20 * RatioScale))

----------------------------------------------------------------------------
(* What the data collaborator (the MCP server) returns, and the requests   *)

MaxTx == 4

MaxRequests == 2

MaxNsf == 3

\* the longest history the collaborator returns
MaxLongTx == 92

\* the records the collaborator draws a transaction list from; the fourth
\* to the seventh lack a key
TxPool ==
    <<("date" :> <<2024, 2, 15>>) @@ ("amount" :> 2000)
          @@ ("description" :> "Payroll"),
      ("date" :> <<2024, 2, 1>>) @@ ("amount" :> -600)
          @@ ("description" :> "Rent"),
      ("date" :> <<2024, 1, 15>>) @@ ("amount" :> 3000)
          @@ ("description" :> "Payroll"),
      ("date" :> <<2024, 3, 1>>) @@ ("amount" :> 500),
      ("amount" :> 100) @@ ("description" :> "Deposit"),
      ("date" :> <<2024, 1, 20>>) @@ ("description" :> "Rent"),
      ("date" :> <<2024, 1, 20>>) @@ ("amount" :> -50),
      ("date" :> <<2024, 2, 10>>) @@ ("amount" :> -200)
          @@ ("description" :> "Starbucks")>>

\* the lists of up to MaxTx records, listed in the pool's order
TxLists ==
    UNION {{[i \in 1..n |-> TxPool[g[i]]] :
               g \in {f \in [1..n -> 1..Len(TxPool)] :
                         \A i \in 1..(n - 1) : f[i] <= f[i + 1]}} :
           n \in 0..MaxTx}

\* a history of n records of one month, not in date order: every third a
\* deposit, the others rent payments
LongTxList(n) ==
    [i \in 1..n |->
        ("date" :> <<2024, 1, 1 + (i % 7)>>)
        @@ ("amount" :> IF i % 3 = 1 THEN 100 ELSE -(40 + (i % 5)))
        @@ ("description" :> IF i % 3 = 1 THEN "Payroll" ELSE "Rent")]

\* histories around the 90 transactions that _estimate_daily_balances reads
LongTxLists == {LongTxList(n) : n \in 89..MaxLongTx}

\* no balance key, an ample balance, an overdrawn account
BalanceDatas == {<<>>, "balance" :> 6000, "balance" :> -10}

\* the pair get_user_data returns; the pair of an empty list and an empty
\* dict is also what it returns when the collaborator fails
UserDatas ==
    {[transactions |-> t, balance_data |-> b] :
        t \in TxLists \cup LongTxLists, b \in BalanceDatas}

\* the JSON bodies of /assess
RiskRequests == {<<>>, ("user_id" :> "alice") @@ ("months" :> 0)}

\* feature values for calls of calculate_risk_score and assess_eligibility
FeatureInputs ==
    {[monthly_net_inflow |-> FracInt(inflow),
      income_stability |-> stability,
      avg_balance |-> FracInt(balance),
      min_balance |-> 0,
      nsf_events |-> nsf,
      expense_ratio |-> ratio,
      payment_consistency |-> consistency,
      category_spending |-> <<>>] :
        inflow \in {-500, 0, 1000, 3200},
        stability \in {0, 5000, 10000},
        balance \in {0, 101, 200, 201, 501, 1001},
        nsf \in 0..MaxNsf,
        ratio \in {0, 3000, 5000, 8000, 10000},
        consistency \in {0, 9000, 10000}}

\* scores for calls of determine_tier: the scale 300..850 and beyond it
ScoreInputs == 250..900

TierNames == {"Bronze", "Silver", "Gold"}

----------------------------------------------------------------------------
(* The Flask route /assess and the analyze_risk call it makes              *)

\* assess_risk lines 608-610: a request arrives, the first of the process
\* or the next after a response
assess_risk(data) ==
    /\ rpc \in {"idle", "done"}
    /\ clock < MaxRequests
    /\ history' = IF rpc = "done" THEN Append(history, risk_response)
                  ELSE history
    /\ risk_request' = [user_id |-> Get(data, "user_id", "testuser"),
                        months |-> Get(data, "months", 6)]
    /\ rpc' = "called"
    /\ r_transactions' = <<>>
    /\ r_balance_data' = <<>>
    /\ r_features' = <<>>
    /\ r_score' = 0
    /\ r_tier' = ""
    /\ r_eligibility' = <<>>
    /\ risk_response' = NoResponse
    /\ UNCHANGED <<mcp, analyzer, clock, challenger_vars, conc_vars,
                   gateway_vars>>

\* analyze_risk line 403
get_user_data_step ==
    /\ rpc = "called"
    /\ r_transactions' = mcp.transactions
    /\ r_balance_data' = mcp.balance_data
    /\ rpc' = "fetched"
    /\ UNCHANGED <<risk_request, mcp, r_features, r_score, r_tier, r_eligibility,
                   risk_response, history, analyzer, clock,
                   challenger_vars, conc_vars, gateway_vars>>

\* analyze_risk line 406; an exception leaves analyze_risk and is answered
\* by assess_risk lines 625-627
extract_features_step ==
    /\ rpc = "fetched"
    /\ LET extracted == extract_features(r_transactions, r_balance_data)
       IN  IF extracted.raised
           THEN /\ risk_response' =
                     [status |-> 500, body |-> [error |-> extracted.error]]
                /\ rpc' = "done"
                /\ clock' = clock + 1
                /\ UNCHANGED r_features
           ELSE /\ r_features' = extracted.value
                /\ rpc' = "extracted"
                /\ UNCHANGED <<risk_response, clock>>
    /\ UNCHANGED <<risk_request, mcp, r_transactions, r_balance_data, r_score, r_tier,
                   r_eligibility, history, analyzer,
                   challenger_vars, conc_vars, gateway_vars>>

\* analyze_risk line 409
calculate_risk_score_step ==
    /\ rpc = "extracted"
    /\ r_score' = calculate_risk_score(analyzer, r_features)
    /\ rpc' = "scored"
    /\ UNCHANGED <<risk_request, mcp, r_transactions, r_balance_data, r_features,
                   r_tier, r_eligibility, risk_response, history, analyzer, clock,
                   challenger_vars, conc_vars, gateway_vars>>

\* analyze_risk line 412
determine_tier_step ==
    /\ rpc = "scored"
    /\ r_tier' = determine_tier(analyzer, r_score)
    /\ rpc' = "tiered"
    /\ UNCHANGED <<risk_request, mcp, r_transactions, r_balance_data, r_features,
                   r_score, r_eligibility, risk_response, history, analyzer, clock,
                   challenger_vars, conc_vars, gateway_vars>>

\* analyze_risk line 415
assess_eligibility_step ==
    /\ rpc = "tiered"
    /\ r_eligibility' = assess_eligibility(r_features, r_score, r_tier)
    /\ rpc' = "assessed"
    /\ UNCHANGED <<risk_request, mcp, r_transactions, r_balance_data, r_features,
                   r_score, r_tier, risk_response, history, analyzer, clock,
                   challenger_vars, conc_vars, gateway_vars>>

\* analyze_risk lines 417-441 and the jsonify of assess_risk lines 615-623;
\* the timestamp is the reading of the clock
analyze_risk_return ==
    /\ rpc = "assessed"
    /\ LET factors == risk_factors(r_features, risk_request.months)
       IN  risk_response' =
             [status |-> 200,
              body |-> [user_id |-> risk_request.user_id,
                        score |-> r_score,
                        tier |-> r_tier,
                        risk_factors |-> factors,
                        eligibility |-> r_eligibility,
                        confidence |-> confidence(r_features, factors),
                        timestamp |-> clock]]
    /\ rpc' = "done"
    /\ clock' = clock + 1
    /\ UNCHANGED <<risk_request, mcp, r_transactions, r_balance_data, r_features,
                   r_score, r_tier, r_eligibility, history, analyzer,
                   challenger_vars, conc_vars, gateway_vars>>

(* Callers of the scoring functions alone, each on arguments of its own    *)

CallRiskScore ==
    /\ rpc = "call_score"
    /\ r_score' = calculate_risk_score(analyzer, r_features)
    /\ rpc' = "unit_score"
    /\ UNCHANGED <<risk_request, mcp, r_transactions, r_balance_data,
                   r_features, r_tier, r_eligibility, risk_response, history,
                   analyzer, clock, challenger_vars, conc_vars, gateway_vars>>

CallTier ==
    /\ rpc = "call_tier"
    /\ r_tier' = determine_tier(analyzer, r_score)
    /\ rpc' = "unit_tier"
    /\ UNCHANGED <<risk_request, mcp, r_transactions, r_balance_data,
                   r_features, r_score, r_eligibility, risk_response, history,
                   analyzer, clock, challenger_vars, conc_vars, gateway_vars>>

CallEligibility ==
    /\ rpc = "call_eligibility"
    /\ r_eligibility' = assess_eligibility(r_features, r_score, r_tier)
    /\ rpc' = "unit_eligibility"
    /\ UNCHANGED <<risk_request, mcp, r_transactions, r_balance_data,
                   r_features, r_score, r_tier, risk_response, history,
                   analyzer, clock, challenger_vars, conc_vars, gateway_vars>>

----------------------------------------------------------------------------
(* Two requests served at the same time.  A call keeps its arguments, its  *)
(* position and its result; what the call computes on the way lives in     *)
(* its frame: the local variables of analyze_proposal, run on a            *)
(* ChallengerAgent made for the request, or those of analyze_risk, run on  *)
(* the one module-level analyzer.                                          *)

Callers == {1, 2}

ProposalCalls ==
    {[kind |-> "analyze_proposal", at |-> "called", result |-> <<>>,
      terms |-> terms, risk |-> "risk_score" :> risk_score,
      spending |-> "total_spending" :> 60000] :
        terms \in {("apr_rate" :> 1899) @@ ("credit_limit" :> 15000),
                   ("apr_rate" :> 2999) @@ ("credit_limit" :> 30000),
                   ("apr_rate" :> 2999) @@ ("credit_limit" :> 0),
                   "credit_limit" :> 3000},
        risk_score \in {20, 50}}

RiskCalls ==
    {[kind |-> "analyze_risk", at |-> "called", result |-> <<>>,
      months |-> months, data |-> data] :
        months \in {0, 6},
        data \in {[transactions |-> <<>>, balance_data |-> <<>>],
                  [transactions |-> <<TxPool[1], TxPool[3]>>,
                   balance_data |-> "balance" :> 6000],
                  [transactions |-> <<TxPool[2], TxPool[2], TxPool[2],
                                      TxPool[3]>>,
                   balance_data |-> "balance" :> 6000],
                  [transactions |-> <<TxPool[3], TxPool[5]>>,
                   balance_data |-> <<>>]}}

ProposalFrame ==
    [base_scenario |-> <<>>, stress_results |-> <<>>,
     constraint_violations |-> <<>>]

RiskFrame == [features |-> <<>>, score |-> 0, tier |-> "", eligibility |-> <<>>]

\* the frame of locals a call works in, were they kept in one module-level
\* object instead
FrameOf_module_level(t) == 1

\* challenge_terms lines 341-346, assess_risk line 613: the frame of locals
\* a call works in is its own
FrameOf(t) == t

\* the next step of analyze_proposal (lines 51, 54, 57, 60-79)
analyze_proposal_step(call, frame) ==
    IF call.at = "called"
    THEN [call |-> [call EXCEPT !.at = "built"],
          frame |-> [frame EXCEPT !.base_scenario =
                        _build_base_scenario(call.terms, call.risk,
                                             call.spending)]]
    ELSE IF call.at = "built"
    THEN LET stress == _run_stress_tests(frame.base_scenario)
         IN  IF stress.raised
             THEN [call |-> [call EXCEPT !.at = "done",
                                !.result = AnalysisFailed(stress.error)],
                   frame |-> [frame EXCEPT !.base_scenario = stress.base]]
             ELSE [call |-> [call EXCEPT !.at = "stressed"],
                   frame |-> [frame EXCEPT !.base_scenario = stress.base,
                                            !.stress_results = stress.value]]
    ELSE IF call.at = "stressed"
    THEN [call |-> [call EXCEPT !.at = "checked"],
          frame |-> [frame EXCEPT !.constraint_violations =
                        _check_constraints(frame.base_scenario,
                                           frame.stress_results)]]
    ELSE LET decision == _make_decision(frame.base_scenario,
                                        frame.stress_results,
                                        frame.constraint_violations,
                                        call.terms)
         IN  [call |->
                [call EXCEPT !.at = "done",
                   !.result =
                     IF decision.raised THEN AnalysisFailed(decision.error)
                     ELSE [agent |-> "challenger-agent",
                           original_proposal |-> call.terms,
                           base_economics |-> frame.base_scenario,
                           stress_test_results |-> frame.stress_results,
                           constraint_violations |->
                               frame.constraint_violations,
                           decision |-> decision.value,
                           confidence |-> 95]],
              frame |-> frame]

\* the next step of analyze_risk (lines 403-406, 409, 412, 415, 417-441)
analyze_risk_step(self, call, frame) ==
    IF call.at = "called"
    THEN LET extracted == extract_features(call.data.transactions,
                                           call.data.balance_data)
         IN  IF extracted.raised
             THEN [call |-> [call EXCEPT !.at = "done",
                                !.result = Raise(extracted.error)],
                   frame |-> frame]
             ELSE [call |-> [call EXCEPT !.at = "extracted"],
                   frame |-> [frame EXCEPT !.features = extracted.value]]
    ELSE IF call.at = "extracted"
    THEN [call |-> [call EXCEPT !.at = "scored"],
          frame |-> [frame EXCEPT !.score =
                        calculate_risk_score(self, frame.features)]]
    ELSE IF call.at = "scored"
    THEN [call |-> [call EXCEPT !.at = "tiered"],
          frame |-> [frame EXCEPT !.tier = determine_tier(self, frame.score)]]
    ELSE IF call.at = "tiered"
    THEN [call |-> [call EXCEPT !.at = "assessed"],
          frame |-> [frame EXCEPT !.eligibility =
                        assess_eligibility(frame.features, frame.score,
                                           frame.tier)]]
    ELSE LET factors == risk_factors(frame.features, call.months)
         IN  [call |->
                [call EXCEPT !.at = "done",
                   !.result =
                     Return([score |-> frame.score,
                             tier |-> frame.tier,
                             risk_factors |-> factors,
                             eligibility |-> frame.eligibility,
                             confidence |->
                                 confidence(frame.features, factors)])],
              frame |-> frame]

\* caller t's request handler takes the next step of its call
ProposalStep(t) ==
    /\ calls # <<>>
    /\ calls[t].kind = "analyze_proposal"
    /\ calls[t].at # "done"
    /\ LET next == analyze_proposal_step(calls[t], frames[FrameOf(t)])
       IN  /\ calls' = [calls EXCEPT ![t] = next.call]
           /\ frames' = [frames EXCEPT ![FrameOf(t)] = next.frame]
    /\ order' = Append(order, t)
    /\ UNCHANGED <<challenger_vars, risk_vars, gateway_vars>>

RiskStep(t) ==
    /\ calls # <<>>
    /\ calls[t].kind = "analyze_risk"
    /\ calls[t].at # "done"
    /\ LET next == analyze_risk_step(analyzer, calls[t], frames[FrameOf(t)])
       IN  /\ calls' = [calls EXCEPT ![t] = next.call]
           /\ frames' = [frames EXCEPT ![FrameOf(t)] = next.frame]
    /\ order' = Append(order, t)
    /\ UNCHANGED <<challenger_vars, risk_vars, gateway_vars>>

----------------------------------------------------------------------------
(* The pre-approval gateway and its response cache                         *)

\* PreApprovalOrchestrator.__init__: the seconds a cache entry is meant to
\* live
cache_ttl == 300

\* the days and the seconds of a timedelta are kept apart
SecondsPerDay == 86400

\* (later - earlier).seconds for two datetimes, later >= earlier: the
\* seconds attribute of a timedelta is the part below one day
TimedeltaSeconds(later, earlier) == (later - earlier) % SecondsPerDay

\* f"preapproval_{user_id}"
CacheKey(user_id) == "preapproval_" \o user_id

_default_risk_assessment(user_id) ==
    ("user_id" :> user_id)
    @@ ("score" :> 650)
    @@ ("tier" :> "Silver")
    @@ ("risk_factors" :> [income_stability |-> 75, balance_volatility |-> 25,
                           expense_ratio |-> 80, payment_reliability |-> 85])
    @@ ("confidence" :> 70)

\* the keys _format_products reads from an offer, in the order it reads them
OfferKeys ==
    <<"product_type", "limit_range", "apr_range", "intro_offer", "perks",
      "explanation", "terms_conditions">>

\* the offer of the fallback terms; an offers dict is the sequence of its
\* items
SilverCard ==
    ("product_type" :> "CREDIT_CARD")
    @@ ("limit_range" :> <<1500, 3000>>)
    @@ ("apr_range" :> <<2299, 2699>>)
    @@ ("intro_offer" :> "3% cash back on dining for 3 months")
    @@ ("perks" :> <<"No annual fee", "Mobile alerts", "Purchase protection">>)
    @@ ("explanation" :> "Silver tier credit card")
    @@ ("terms_conditions" :> "pre-approval estimate")

_default_terms_offers(user_id) ==
    ("user_id" :> user_id)
    @@ ("tier" :> "Silver")
    @@ ("offers" :> <<<<"credit_card", SilverCard>>>>)
    @@ ("confidence" :> 75)

\* timestamp is the clock reading in place of its ISO text
_error_response(user_id, error, at) ==
    ("user_id" :> user_id)
    @@ ("eligible" :> FALSE)
    @@ ("error" :> error)
    @@ ("timestamp" :> at)
    @@ ("status" :> "error")

\* _get_risk_assessment and _get_terms_offers: the JSON of a 200 reply, the
\* fallback for any other status and for a RequestException (status 0)
_get_risk_assessment(user_id, reply) ==
    IF reply.status = 200 THEN reply.json
    ELSE _default_risk_assessment(user_id)

_get_terms_offers(user_id, reply) ==
    IF reply.status = 200 THEN reply.json
    ELSE _default_terms_offers(user_id)

\* the product of every offer that is not empty; a KeyError for the first
\* key that such an offer lacks
_format_products(offers) ==
    LET Filled(item) == item[2] # <<>>
        filled == SelectSeq(offers, Filled)
        Lacking(i) == {k \in 1..Len(OfferKeys) :
                          OfferKeys[k] \notin DOMAIN filled[i][2]}
        broken == {i \in 1..Len(filled) : Lacking(i) # {}}
        Product(offer_data) ==
            [type |-> offer_data["product_type"],
             limit_range |-> offer_data["limit_range"],
             apr_range |-> offer_data["apr_range"],
             intro_offer |-> offer_data["intro_offer"],
             perks |-> offer_data["perks"],
             explanation_md |-> offer_data["explanation"],
             terms_conditions |-> offer_data["terms_conditions"]]
    IN  IF broken # {}
        THEN LET i == CHOOSE b \in broken : \A c \in broken : b <= c
                 k == CHOOSE a \in Lacking(i) : \A c \in Lacking(i) : a <= c
             IN  Raise("'" \o OfferKeys[k] \o "'")
        ELSE Return([i \in 1..Len(filled) |-> Product(filled[i][2])])

_combine_results(user_id, risk_data, terms_data, at) ==
    LET products == _format_products(Get(terms_data, "offers", <<>>))
    IN  IF products.raised THEN products
        ELSE Return(
                 ("user_id" :> user_id)
                 @@ ("eligible" :> TRUE)
                 @@ ("tier" :> Get(risk_data, "tier", "Silver"))
                 @@ ("score" :> Get(risk_data, "score", 650))
                 @@ ("confidence" :> Min(Get(risk_data, "confidence", 80),
                                         Get(terms_data, "confidence", 80)))
                 @@ ("risk_factors" :> Get(risk_data, "risk_factors", <<>>))
                 @@ ("products" :> products.value)
                 @@ ("timestamp" :> at)
                 @@ ("status" :> "success"))

\* whether the entry of cache_key is returned as it is
CacheHit(entries, cache_key, at) ==
    /\ cache_key \in DOMAIN entries
    /\ TimedeltaSeconds(at, entries[cache_key][2]) < cache_ttl

\* PreApprovalOrchestrator.get_preapproval at clock reading at: the response
\* it returns, the cache it leaves and where the response came from.
\* replies holds what the two agents reply and, as in_time, whether both
\* futures had their result within 10 seconds.
PreApprovalOrchestrator_get_preapproval(entries, user_id, at, replies) ==
    LET cache_key == CacheKey(user_id)
        combined == _combine_results(user_id,
                                     _get_risk_assessment(user_id, replies.risk),
                                     _get_terms_offers(user_id, replies.terms),
                                     at)
    IN  IF CacheHit(entries, cache_key, at)
        THEN [result |-> entries[cache_key][1], cache |-> entries,
              source |-> "cache"]
        ELSE IF ~replies.in_time
        THEN [result |-> _error_response(user_id, "Service timeout", at),
              cache |-> entries, source |-> "error"]
        ELSE IF combined.raised
        THEN [result |-> _error_response(user_id, combined.error, at),
              cache |-> entries, source |-> "error"]
        ELSE [result |-> combined.value,
              cache |-> Put(entries, cache_key, <<combined.value, at>>),
              source |-> "agents"]

\* the query arguments of /preapproval
PreapprovalArgs == {<<>>, "user_id" :> "alice"}

\* what the risk agent may reply: an assessment, a bare body, a failure
RiskReplies ==
    {[status |-> 200,
      json |-> ("score" :> 735) @@ ("tier" :> "Gold") @@ ("confidence" :> 85)],
     [status |-> 200, json |-> <<>>],
     [status |-> 500, json |-> <<>>]}

\* what the terms agent may reply: an offer and an empty one, an offer
\* without perks, no connection
TermsReplies ==
    {[status |-> 200,
      json |-> ("offers" :> <<<<"credit_card", SilverCard>>, <<"bnpl", <<>>>>>>)
               @@ ("confidence" :> 90)],
     [status |-> 200,
      json |-> "offers" :> <<<<"credit_card",
                                [k \in DOMAIN SilverCard \ {"perks"} |->
                                    SilverCard[k]]>>>>],
     [status |-> 0, json |-> <<>>]}

\* how often time passes between the requests of one behaviour
MaxWaits == 2

\* the waits between two requests: within the time to live, up to it, a day
Delays == {1, 299, SecondsPerDay}

NothingServed == [user_id |-> "", source |-> "", age |-> -1, result |-> <<>>]

GatewayIdle ==
    /\ cache = <<>>
    /\ now = 0
    /\ waits = 0
    /\ served = NothingServed

\* the route /preapproval, lines 192-204: the orchestrator's answer for the
\* user of the request, or for testuser
get_preapproval(args, risk_reply, terms_reply, in_time) ==
    LET user_id == Get(args, "user_id", "testuser")
        cache_key == CacheKey(user_id)
        out == PreApprovalOrchestrator_get_preapproval(
                   cache, user_id, now,
                   [risk |-> risk_reply, terms |-> terms_reply,
                    in_time |-> in_time])
    IN  /\ cache' = out.cache
        /\ served' = [user_id |-> user_id,
                      source |-> out.source,
                      age |-> IF cache_key \in DOMAIN cache
                              THEN now - cache[cache_key][2] ELSE -1,
                      result |-> out.result]
        /\ UNCHANGED <<now, waits, challenger_vars, risk_vars, conc_vars>>

\* time passes between two requests
Wait(seconds) ==
    /\ waits < MaxWaits
    /\ now' = now + seconds
    /\ waits' = waits + 1
    /\ UNCHANGED <<cache, served, challenger_vars, risk_vars, conc_vars>>

----------------------------------------------------------------------------
(* Specifications                                                          *)

NoUserData == [transactions |-> <<>>, balance_data |-> <<>>]

\* no request has reached the challenger agent
ChallengerIdle ==
    /\ pc = "idle"
    /\ request = <<>>
    /\ base_scenario = <<>>
    /\ stress_results = <<>>
    /\ constraint_violations = <<>>
    /\ response = NoResponse
    /\ base_dict = <<>>
    /\ runs = <<>>

\* the risk agent's process has started (line 598) and served no request
RiskIdle ==
    /\ rpc = "idle"
    /\ risk_request = <<>>
    /\ r_transactions = <<>>
    /\ r_balance_data = <<>>
    /\ r_features = <<>>
    /\ r_score = 0
    /\ r_tier = ""
    /\ r_eligibility = <<>>
    /\ risk_response = NoResponse
    /\ history = <<>>
    /\ analyzer = RiskAnalyzer
    /\ clock = 0

NoCalls ==
    /\ calls = <<>>
    /\ frames = <<>>
    /\ order = <<>>

Init ==
    /\ GatewayIdle
    /\ ChallengerIdle
    /\ RiskIdle
    /\ mcp = NoUserData
    /\ NoCalls

Next ==
    \/ \E data \in RequestDatas : challenge_terms(data)
    \/ run_stress_tests_step
    \/ check_constraints_step
    \/ make_decision_step

Spec == Init /\ [][Next]_vars

NextStress ==
    \/ \E terms \in TermsProposals, risk \in RiskDatas \cup {<<>>},
          spending \in SpendingDatas \cup {<<>>} :
           BuildBase(terms, risk, spending)
    \/ RunStress

SpecStress == Init /\ [][NextStress]_vars

\* the scoring functions, each called on arguments of its own:
\* calculate_risk_score on features, determine_tier on a score,
\* assess_eligibility on features, their score and a tier
InitScore ==
    /\ GatewayIdle
    /\ ChallengerIdle
    /\ NoCalls
    /\ mcp = NoUserData
    /\ risk_request = <<>>
    /\ r_transactions = <<>>
    /\ r_balance_data = <<>>
    /\ r_eligibility = <<>>
    /\ risk_response = NoResponse
    /\ history = <<>>
    /\ analyzer = RiskAnalyzer
    /\ clock = 0
    /\ \/ /\ rpc = "call_score"
          /\ r_features \in FeatureInputs
          /\ r_score = 0
          /\ r_tier = ""
       \/ /\ rpc = "call_tier"
          /\ r_features = <<>>
          /\ r_score \in ScoreInputs
          /\ r_tier = ""
       \/ /\ rpc = "call_eligibility"
          /\ r_features \in FeatureInputs
          /\ r_score = calculate_risk_score(analyzer, r_features)
          /\ r_tier \in TierNames

NextScore ==
    \/ CallRiskScore
    \/ CallTier
    \/ CallEligibility

SpecScore == InitScore /\ [][NextScore]_vars

\* the risk agent serving up to MaxRequests requests, one after the other,
\* for a user whose data at the collaborator stays as it is
InitRisk ==
    /\ GatewayIdle
    /\ ChallengerIdle
    /\ RiskIdle
    /\ mcp \in UserDatas
    /\ NoCalls

NextRisk ==
    \/ \E data \in RiskRequests : assess_risk(data)
    \/ get_user_data_step
    \/ extract_features_step
    \/ calculate_risk_score_step
    \/ determine_tier_step
    \/ assess_eligibility_step
    \/ analyze_risk_return

SpecRisk == InitRisk /\ [][NextRisk]_vars

\* two calls of one agent on different arguments, their steps interleaved
InitConc ==
    /\ GatewayIdle
    /\ ChallengerIdle
    /\ RiskIdle
    /\ mcp = NoUserData
    /\ order = <<>>
    /\ \/ /\ calls \in [Callers -> ProposalCalls]
          /\ frames = [t \in Callers |-> ProposalFrame]
       \/ /\ calls \in [Callers -> RiskCalls]
          /\ frames = [t \in Callers |-> RiskFrame]
    /\ calls[1] # calls[2]

NextConc ==
    \/ \E t \in Callers : ProposalStep(t)
    \/ \E t \in Callers : RiskStep(t)

SpecConc == InitConc /\ [][NextConc]_vars

\* the gateway serving requests for two users while time passes
NextGateway ==
    \/ \E args \in PreapprovalArgs, risk_reply \in RiskReplies,
          terms_reply \in TermsReplies, in_time \in BOOLEAN :
           get_preapproval(args, risk_reply, terms_reply, in_time)
    \/ \E seconds \in Delays : Wait(seconds)

SpecGateway == Init /\ [][NextGateway]_vars

----------------------------------------------------------------------------
(* Properties of the challenger agent                                      *)

\* analyze_proposal returned and its result was sent back
Answered == pc = "done" /\ response.status = 200

Result == response.body

\* the result is the one of the except branch
Failed == "error" \in DOMAIN Result

Decision == Result.decision

TermsIn == request["terms_proposal"]

RiskIn == Get(request, "risk_assessment", <<>>)

SpendingIn == Get(request, "spending_data", <<>>)

\* the base scenario as _build_base_scenario returns it for the request
Baseline == _build_base_scenario(TermsIn, RiskIn, SpendingIn)

HighCount(violations) == Len(SelectSeq(violations, IsHigh))

HasConstraint(violations, constraint) ==
    \E i \in 1..Len(violations) : violations[i].constraint = constraint

FailDecision == [action |-> "reject", reason |-> Text("Analysis failed", <<>>)]

IsCounterOffer == Answered /\ ~Failed /\ Decision.action = "counter_offer"

\* C1: for every request that carries a terms_proposal, failing internal
\* steps included, analyze_proposal returns a result with a decision whose
\* action is one of approve_as_is, counter_offer, reject.
C1_DecisionTrichotomy ==
    (pc = "done" /\ "terms_proposal" \in DOMAIN request) =>
        /\ Answered
        /\ "decision" \in DOMAIN Result
        /\ Decision.action \in {"approve_as_is", "counter_offer", "reject"}

\* a call whose stress tests divided by a zero capital requirement
C1_Witness ==
    /\ Answered
    /\ Failed
    /\ Result.error = "float division by zero"
    /\ Decision.action = "reject"

\* C2: the decision is approve_as_is if and only if the violation list has
\* no high-severity entry and at most one entry.
C2_ApproveIffFewViolations ==
    Answered =>
        (Decision.action = "approve_as_is"
            <=> /\ ~Failed
                /\ HighCount(Result.constraint_violations) = 0
                /\ Len(Result.constraint_violations) <= 1)

\* approved with exactly one (medium) violation on the list
C2_Witness ==
    /\ Answered
    /\ ~Failed
    /\ Decision.action = "approve_as_is"
    /\ Len(Result.constraint_violations) = 1

\* C3 as claimed: every reject decision has more than two high-severity
\* violations and its reason cites their number.
C3_RejectMeansTooMany ==
    (Answered /\ Decision.action = "reject") =>
        /\ ~Failed
        /\ HighCount(Result.constraint_violations) > 2
        /\ Decision.reason =
             Text("Too many constraint violations ({} high severity)",
                  <<HighCount(Result.constraint_violations)>>)

\* C3 amended: every reject decision is either the 'Analysis failed'
\* fallback of the except branch, or has more than two high-severity
\* violations and a reason that cites their number.
C3_RejectIsFallbackOrTooMany ==
    (Answered /\ Decision.action = "reject") =>
        \/ Failed /\ Decision = FailDecision
        \/ /\ ~Failed
           /\ HighCount(Result.constraint_violations) > 2
           /\ Decision.reason =
                Text("Too many constraint violations ({} high severity)",
                     <<HighCount(Result.constraint_violations)>>)

\* a reject: the counter-offer needed a credit_limit the proposal lacks
C3_Witness ==
    /\ Answered
    /\ Decision.action = "reject"
    /\ Failed
    /\ Result.error = "'credit_limit'"

\* C4: in every counter_offer decision the counter-proposal's apr_rate is
\* at most max_apr (29.99).
C4_CounterAprAtMostMax ==
    (IsCounterOffer /\ "apr_rate" \in DOMAIN Decision.counter_proposal) =>
        Decision.counter_proposal["apr_rate"] <= max_apr

\* C5 as claimed: in every counter_offer decision the counter-proposal's
\* credit_limit is at least 5000.
C5_CounterLimitAtLeast5000 ==
    (IsCounterOffer /\ "credit_limit" \in DOMAIN Decision.counter_proposal) =>
        Decision.counter_proposal["credit_limit"] >= 5000

\* C5 amended: in a counter_offer decision with a max_loss_rate violation
\* the counter-proposal's credit_limit is at least 5000; with no such
\* violation the credit_limit is the original proposal's (absent if the
\* original has none), whatever its amount.
C5_CounterLimitFloorWhenCut ==
    IsCounterOffer =>
        IF HasConstraint(Result.constraint_violations, "max_loss_rate")
        THEN /\ "credit_limit" \in DOMAIN Decision.counter_proposal
             /\ Decision.counter_proposal["credit_limit"] >= 5000
        ELSE /\ "credit_limit" \in DOMAIN Decision.counter_proposal
                    <=> "credit_limit" \in DOMAIN TermsIn
             /\ "credit_limit" \in DOMAIN TermsIn =>
                    Decision.counter_proposal["credit_limit"]
                        = TermsIn["credit_limit"]

\* a counter-offer on a limit of 3000 with a loss-rate violation
C5_Witness ==
    /\ IsCounterOffer
    /\ HasConstraint(Result.constraint_violations, "max_loss_rate")
    /\ TermsIn["credit_limit"] = 3000
    /\ Decision.counter_proposal["credit_limit"] = 5000

\* an internal step of analyze_proposal raises for the given inputs
StepRaises(terms, risk, spending) ==
    LET stress == _run_stress_tests(_build_base_scenario(terms, risk, spending))
    IN  \/ stress.raised
        \/ _make_decision(stress.base, stress.value,
                          _check_constraints(stress.base, stress.value),
                          terms).raised

\* C6: analyze_proposal never propagates an exception: it always returns a
\* result, and when an internal step raises (a credit_limit of 0 in the
\* stress tests, a missing apr_rate or credit_limit in the counter-offer)
\* the result's decision is reject with reason 'Analysis failed'.
C6_FailureBecomesReject ==
    (pc = "done" /\ "terms_proposal" \in DOMAIN request) =>
        /\ Answered
        /\ StepRaises(TermsIn, RiskIn, SpendingIn) =>
               Failed /\ Decision = FailDecision
        /\ Get(TermsIn, "credit_limit", 15000) = 0 =>
               Failed /\ Decision = FailDecision

\* a proposal without apr_rate whose counter-offer raises the APR
C6_Witness ==
    /\ Answered
    /\ Failed
    /\ Result.error = "'apr_rate'"
    /\ "apr_rate" \notin DOMAIN TermsIn
    /\ Decision = FailDecision

\* C7: a second call of _run_stress_tests on the same base scenario dict
\* returns the same four scenarios as the first call.
C7_StressRerunSame ==
    (Len(runs) >= 2 /\ ~runs[1].raised /\ ~runs[2].raised) =>
        runs[2].value = runs[1].value

\* C8: each scenario differs from the baseline only in its own driver:
\* default_up_1_5x and cof_up_100bps carry the baseline perk cost and
\* interchange revenue, cof_up_100bps and perk_usage_maxed the baseline
\* expected loss, perk_usage_maxed the baseline funding cost.
C8_OneDriverPerScenario ==
    (Answered /\ ~Failed) =>
        LET stress == Result.stress_test_results
        IN  /\ stress.default_up_1_5x.costs.perks = Baseline.costs.perks
            /\ stress.cof_up_100bps.costs.perks = Baseline.costs.perks
            /\ stress.default_up_1_5x.revenues.interchange
                   = Baseline.revenues.interchange
            /\ stress.cof_up_100bps.revenues.interchange
                   = Baseline.revenues.interchange
            /\ stress.cof_up_100bps.costs.expected_loss
                   = Baseline.costs.expected_loss
            /\ stress.perk_usage_maxed.costs.expected_loss
                   = Baseline.costs.expected_loss
            /\ stress.perk_usage_maxed.costs.funding = Baseline.costs.funding

\* C9: _run_stress_tests leaves the base scenario unchanged, so the
\* base_economics of the result is the baseline of _build_base_scenario.
C9_BaseEconomicsIsBaseline ==
    (Answered /\ ~Failed) => Result.base_economics = Baseline

\* C10: a max_perk_budget violation (medium) is reported exactly when the
\* baseline perk cost exceeds $50 a month, and its 'actual' is that cost.
C10_PerkBudgetOnBaseline ==
    (Answered /\ ~Failed) =>
        LET violations == Result.constraint_violations
        IN  /\ HasConstraint(violations, "max_perk_budget")
                   <=> Baseline.costs.perks > max_perk_budget_monthly * Scale
            /\ \A i \in 1..Len(violations) :
                   violations[i].constraint = "max_perk_budget" =>
                       /\ violations[i].severity = "medium"
                       /\ violations[i].actual = Baseline.costs.perks

----------------------------------------------------------------------------
(* Properties of the risk agent                                            *)

\* the feature combinations the scoring functions are specified for
ValidFeatures(f) ==
    /\ f.income_stability \in 0..RatioScale
    /\ f.payment_consistency \in 0..RatioScale
    /\ f.nsf_events >= 0
    /\ FracLE(FracZero, f.avg_balance)
    /\ f.expense_ratio >= 0

\* C11: for every valid feature combination calculate_risk_score returns
\* an integer score with 300 <= score <= 850.
C11_ScoreOnScale ==
    (rpc = "unit_score" /\ ValidFeatures(r_features)) => r_score \in 300..850

\* the tiers of the table whose range holds the score
Holding(table, s) ==
    {i \in 1..Len(table) : table[i].min_score <= s /\ s <= table[i].max_score}

\* C12: determine_tier maps every integer score in 300..850 to exactly one
\* tier, with no gap and no overlap: Bronze up to 599, Silver from 600 to
\* 699, Gold from 700 to 850; the default Bronze after the loop is never
\* what such a score gets.
C12_TierBands ==
    (rpc = "unit_tier" /\ r_score \in 300..850) =>
        /\ Cardinality(Holding(analyzer.tiers, r_score)) = 1
        /\ MatchingTier(analyzer.tiers, r_score, 1) # 0
        /\ r_tier = IF r_score <= 599 THEN "Bronze"
                    ELSE IF r_score <= 699 THEN "Silver"
                    ELSE "Gold"

\* the last score of the Silver band
C12_Witness ==
    /\ rpc = "unit_tier"
    /\ r_score = 699
    /\ r_tier = "Silver"

\* the features with one more NSF event
OneMoreNsf(f) == [f EXCEPT !.nsf_events = @ + 1]

\* the balance-management sub-score before any NSF penalty
BalanceBand(f) == balance_management([f EXCEPT !.nsf_events = 0])

\* C13: with all other features fixed, one more NSF event never raises the
\* balance-management sub-score, nor the score; the sub-score is its band
\* less 50 for each NSF event, and not less than 300.
C13_NsfNeverRaises ==
    rpc = "unit_score" =>
        /\ balance_management(OneMoreNsf(r_features))
               <= balance_management(r_features)
        /\ balance_management(r_features)
               = Max(300, BalanceBand(r_features) - 50 * r_features.nsf_events)
        /\ balance_management(r_features) >= 300
        /\ calculate_risk_score(analyzer, OneMoreNsf(r_features)) <= r_score

\* a second NSF event takes the sub-score from 350 to the floor, and ten
\* points off the score
C13_Witness ==
    /\ rpc = "unit_score"
    /\ r_features.nsf_events = 1
    /\ balance_management(r_features) = 350
    /\ balance_management(OneMoreNsf(r_features)) = 300
    /\ calculate_risk_score(analyzer, OneMoreNsf(r_features)) = r_score - 10

\* C14: for every tier, overdraft_line is eligible exactly when nsf_events
\* is 0 and avg_balance exceeds 200; otherwise it is not eligible and its
\* reason is 'Insufficient balance history or NSF events'.
C14_OverdraftGate ==
    rpc = "unit_eligibility" =>
        LET line == r_eligibility.overdraft_line
            gate == /\ r_features.nsf_events = 0
                    /\ FracLT(FracInt(200), r_features.avg_balance)
        IN  /\ line.eligible <=> gate
            /\ ~gate =>
                 /\ "reason" \in DOMAIN line
                 /\ line.reason = "Insufficient balance history or NSF events"

\* a Gold applicant with a high balance and one NSF event is turned down
C14_Witness ==
    /\ rpc = "unit_eligibility"
    /\ r_tier = "Gold"
    /\ r_features.nsf_events = 1
    /\ r_features.avg_balance = FracInt(1001)
    /\ ~r_eligibility.overdraft_line.eligible

\* /assess has answered the request
RiskAnswered == rpc = "done"

Assessment == risk_response.body

\* a record of the list lacks a date, an amount or a description
Malformed(txs) ==
    \E i \in 1..Len(txs) :
        ~({"date", "amount", "description"} \subseteq DOMAIN txs[i])

\* C15: the risk scorer never raises on empty or malformed transaction
\* input: for an empty list, and for a list with a record that lacks a
\* date, an amount or a description, the features are the default
\* features and analyze_risk returns an assessment.
C15_NeverRaises ==
    (RiskAnswered /\ (r_transactions = <<>> \/ Malformed(r_transactions))) =>
        /\ risk_response.status = 200
        /\ r_features = _default_features

\* C16: the confidence of every assessment analyze_risk returns is at
\* least 0 and at most 0.95, whatever the history and the balance.
C16_ConfidenceInRange ==
    (RiskAnswered /\ risk_response.status = 200) =>
        /\ FracLE(FracZero, Assessment.confidence)
        /\ FracLE(Assessment.confidence, Frac(95, 100))

\* two responses carry the same score, tier and eligibility (or both
\* report the same failure)
SameAssessment(a, b) ==
    /\ a.status = b.status
    /\ a.status = 200 =>
         /\ a.body.score = b.body.score
         /\ a.body.tier = b.body.tier
         /\ a.body.eligibility = b.body.eligibility
    /\ a.status # 200 => a.body = b.body

----------------------------------------------------------------------------
(* Further properties of the challenger agent                              *)

\* the request of the worked example
Scenario9 ==
    /\ pc = "done"
    /\ "terms_proposal" \in DOMAIN request
    /\ TermsIn = ("apr_rate" :> 1899) @@ ("credit_limit" :> 15000)
    /\ RiskIn = ("risk_score" :> 50)
    /\ SpendingIn = ("total_spending" :> 60000)

\* the violation list reports the constraint exactly when the actual value
\* is on the wrong side of the required one
Checked(violations, constraint, breached, required, actual) ==
    /\ HasConstraint(violations, constraint) <=> breached
    /\ \A i \in 1..Len(violations) :
           violations[i].constraint = constraint =>
               /\ violations[i].required = required
               /\ violations[i].actual = actual

\* C18: for apr_rate 18.99, credit_limit 15000, risk_score 50 and
\* total_spending 60000 the analysis completes and its base scenario has
\* pd 0.07, avg_balance 4500, revolving_balance 2250, monthly_spend 5000,
\* interchange revenue 90.0 and an interest revenue that is 35.608 to the
\* cent; roe is checked against 0.15 and loss_rate against 0.08.
C18_Scenario9Figures ==
    Scenario9 =>
        /\ Answered
        /\ ~Failed
        /\ LET base == Result.base_economics
           IN  /\ base.pd * 100 = 7 * PdScale
               /\ base.avg_balance = 4500
               /\ base.revolving_balance = 2250
               /\ base.monthly_spend = 5000 * Scale
               /\ base.revenues.interchange = 90 * Scale
               \* 35.608 and half a cent, in units of 1/Scale
               /\ Abs(base.revenues.interest - 35608 * (Scale \div 1000))
                      <= 5 * (Scale \div 1000)
               /\ Checked(Result.constraint_violations, "min_roe",
                          FracLT(base.roe, min_roe), min_roe, base.roe)
               /\ Checked(Result.constraint_violations, "max_loss_rate",
                          FracLT(max_loss_rate, base.loss_rate),
                          max_loss_rate, base.loss_rate)

\* the result of a call that runs from its start to its end in a frame of
\* its own, with no other call in between
RECURSIVE RunAlone(_, _)
RunAlone(call, frame) ==
    IF call.at = "done" THEN call.result
    ELSE LET next == IF call.kind = "analyze_proposal"
                     THEN analyze_proposal_step(call, frame)
                     ELSE analyze_risk_step(RiskAnalyzer, call, frame)
         IN  RunAlone(next.call, next.frame)

\* the call as it was made
AsCalled(call) == [call EXCEPT !.at = "called", !.result = <<>>]

NewFrame(call) ==
    IF call.kind = "analyze_proposal" THEN ProposalFrame ELSE RiskFrame

\* C19: of two analyze_proposal calls, or two analyze_risk computations,
\* on different inputs and interleaved in any way, each returns the
\* result that it returns when it runs alone.
C19_NoInterference ==
    \A t \in DOMAIN calls :
        calls[t].at = "done" =>
            calls[t].result = RunAlone(AsCalled(calls[t]), NewFrame(calls[t]))

\* two proposals analysed in turns, a step of one after a step of the
\* other, to two different results
C19_Witness ==
    /\ DOMAIN calls = Callers
    /\ \A t \in Callers :
           calls[t].kind = "analyze_proposal" /\ calls[t].at = "done"
    /\ \A i \in 1..(Len(order) - 1) : order[i] # order[i + 1]
    /\ calls[1].result # calls[2].result
    /\ ~("error" \in DOMAIN calls[1].result)
    /\ ~("error" \in DOMAIN calls[2].result)

\* the high-severity violations of the list are of these constraints only
HighOnly(violations, constraints) ==
    \A i \in 1..Len(violations) :
        IsHigh(violations[i]) => violations[i].constraint \in constraints

\* C20: an analysis that completes without an internal exception reports
\* at most two high-severity violations, those of min_roe and of
\* max_loss_rate, so its decision is never a rejection; the one rejection
\* there is, is that of a failed analysis.
C20_RejectOnlyOnFailure ==
    Answered =>
        /\ ~Failed =>
             /\ HighCount(Result.constraint_violations) <= 2
             /\ HighOnly(Result.constraint_violations,
                         {"min_roe", "max_loss_rate"})
             /\ Decision.action \in {"approve_as_is", "counter_offer"}
        /\ Decision.action = "reject" => (Failed /\ Decision = FailDecision)

\* both high-severity violations at once, among others, and a counter-offer
C20_Witness ==
    /\ Answered
    /\ ~Failed
    /\ HighCount(Result.constraint_violations) = 2
    /\ Len(Result.constraint_violations) > 2
    /\ Decision.action = "counter_offer"

----------------------------------------------------------------------------
(* Counter-offers and stress figures of the challenger agent               *)

Counter == Decision.counter_proposal

\* a key is in both dicts with one value, or in neither
SameField(a, b, key) ==
    /\ key \in DOMAIN a <=> key \in DOMAIN b
    /\ key \in DOMAIN a => a[key] = b[key]

\* clamp(lo, hi, x)
Clamp(lo, hi, x) == Min(hi, Max(lo, x))

\* C21: in every counter_offer decision the counter-proposal's credit_limit
\* is at most the original one: it is the original less
\* clamp(1000, 5000, 20% of the original) when a loss-rate violation is
\* present, and the original otherwise.
C21_CounterOnlyCutsLimit ==
    (IsCounterOffer /\ "credit_limit" \in DOMAIN TermsIn) =>
        LET original == TermsIn["credit_limit"]
            cut == IF HasConstraint(Result.constraint_violations,
                                    "max_loss_rate")
                   THEN Clamp(1000, 5000, (original * 2) \div 10)
                   ELSE 0
        IN  /\ "credit_limit" \in DOMAIN Counter
            /\ Counter["credit_limit"] <= original
            /\ Counter["credit_limit"] = original - cut

\* the constraints on ROE: the base one and one for each stress scenario
RoeConstraints ==
    {"min_roe"} \cup {StressConstraint(ScenarioNames[i]) :
                         i \in 1..Len(ScenarioNames)}

IsRoeViolation(v) == v.constraint \in RoeConstraints

RoeCount(violations) == Len(SelectSeq(violations, IsRoeViolation))

\* C22: in a counter-offer with n >= 1 violations of the ROE constraints
\* the counter APR is min(29.99, original APR + clamp(50, 200, n x 100)
\* bps); with none, the counter APR is the original one.
C22_CounterApr ==
    IsCounterOffer =>
        LET n == RoeCount(Result.constraint_violations)
        IN  IF n >= 1
            THEN /\ "apr_rate" \in DOMAIN Counter
                 /\ Counter["apr_rate"]
                        = Min(2999, TermsIn["apr_rate"] + Clamp(50, 200, n * 100))
            ELSE SameField(Counter, TermsIn, "apr_rate")

\* two ROE violations, both of stress scenarios: 23.99 becomes 25.99
C22_Witness ==
    /\ IsCounterOffer
    /\ RoeCount(Result.constraint_violations) = 2
    /\ ~HasConstraint(Result.constraint_violations, "min_roe")
    /\ TermsIn["apr_rate"] = 2399
    /\ Counter["apr_rate"] = 2599

\* the promotional offers of the counter-proposal, given that the
\* violations call for a truncation or not
PromosAfter(truncate) ==
    IF truncate
    THEN /\ "promotional_offers" \in DOMAIN Counter
             <=> "promotional_offers" \in DOMAIN TermsIn
         /\ "promotional_offers" \in DOMAIN Counter =>
                /\ Len(Counter["promotional_offers"]) <= 1
                /\ Counter["promotional_offers"]
                       = SubSeq(TermsIn["promotional_offers"], 1,
                                Len(Counter["promotional_offers"]))
    ELSE SameField(Counter, TermsIn, "promotional_offers")

\* C23 as claimed: in a counter-offer promotional_offers is cut to at most
\* one entry if a max_perk_budget violation is present and is the
\* original's otherwise; the original terms_proposal is not modified.
C23_PromosCutOnPerkBudget ==
    IsCounterOffer =>
        /\ PromosAfter(HasConstraint(Result.constraint_violations,
                                     "max_perk_budget"))
        /\ Result.original_proposal = TermsIn

\* C23 amended: in a counter-offer promotional_offers is cut to at most one
\* entry if a max_perk_budget or a stress_roe_perk_usage_maxed violation is
\* present and is the original's when neither is; the original
\* terms_proposal is not modified.
C23_PromosCutOnPerkViolation ==
    IsCounterOffer =>
        /\ PromosAfter(\/ HasConstraint(Result.constraint_violations,
                                        "max_perk_budget")
                       \/ HasConstraint(Result.constraint_violations,
                                        "stress_roe_perk_usage_maxed"))
        /\ Result.original_proposal = TermsIn

\* two promotions cut to one on the stress violation alone
C23_Witness ==
    /\ IsCounterOffer
    /\ ~HasConstraint(Result.constraint_violations, "max_perk_budget")
    /\ HasConstraint(Result.constraint_violations,
                     "stress_roe_perk_usage_maxed")
    /\ "promotional_offers" \in DOMAIN TermsIn
    /\ Len(TermsIn["promotional_offers"]) = 2
    /\ Len(Counter["promotional_offers"]) = 1

\* C24: the spend_down_20pct scenario's profit_monthly is 0.8 x baseline
\* interchange + baseline interest - (0.8 x baseline perks + expected loss
\* + funding + operations), each cost counted once, and its roe is 12 x
\* that profit over the capital requirement.
C24_SpendDownProfit ==
    (Answered /\ ~Failed) =>
        LET scenario == Result.stress_test_results.spend_down_20pct
            profit == Times(Baseline.revenues.interchange, 8, 10)
                      + Baseline.revenues.interest
                      - (Times(Baseline.costs.perks, 8, 10)
                         + Baseline.costs.expected_loss
                         + Baseline.costs.funding
                         + Baseline.costs.operations)
        IN  /\ scenario.profit_monthly = profit
            /\ scenario.roe
                   = Frac(profit * 12, Baseline.capital_requirement * Scale)

\* the pd of the claim, in units of 1/PdScale
StepPd(risk) ==
    IF "risk_score" \notin DOMAIN risk THEN 700
    ELSE IF risk["risk_score"] <= 20 THEN 200
    ELSE IF risk["risk_score"] <= 40 THEN 400
    ELSE IF risk["risk_score"] <= 60 THEN 700
    ELSE IF risk["risk_score"] <= 80 THEN 1200
    ELSE 2000

VeryHighRisk == "risk_score" \in DOMAIN RiskIn /\ RiskIn["risk_score"] > 80

\* C26: with a positive credit limit the base loss_rate is pd x 0.45, pd
\* the step function of risk_score (7% when absent); a high-severity
\* max_loss_rate violation is reported exactly when risk_score > 80, and
\* only then does a counter-offer change the credit limit.
C26_LossRateFromRiskScore ==
    (Answered /\ ~Failed /\ Get(TermsIn, "credit_limit", 15000) > 0) =>
        LET violations == Result.constraint_violations
        IN  /\ Result.base_economics.loss_rate
                   = Frac(StepPd(RiskIn) * 45, PdScale * 100)
            /\ HasConstraint(violations, "max_loss_rate") <=> VeryHighRisk
            /\ \A i \in 1..Len(violations) :
                   violations[i].constraint = "max_loss_rate" =>
                       violations[i].severity = "high"
            /\ (IsCounterOffer /\ ~VeryHighRisk) =>
                   SameField(Counter, TermsIn, "credit_limit")

\* risk_score 81: the loss-rate violation and a limit of 30000 cut to 25000
C26_Witness ==
    /\ IsCounterOffer
    /\ RiskIn = ("risk_score" :> 81)
    /\ HasConstraint(Result.constraint_violations, "max_loss_rate")
    /\ TermsIn["credit_limit"] = 30000
    /\ Counter["credit_limit"] = 25000

----------------------------------------------------------------------------
(* Feature extraction of the risk agent                                    *)

\* extract_features has returned the features of a non-empty history
Extracted == rpc = "extracted" /\ r_transactions # <<>>

Sorted == SortedByDate(r_transactions)

Buckets == _identify_recurring_expenses(Sorted)

\* max(mean monthly inflow, 1)
FlooredInflow ==
    IF FracLT(r_features.monthly_net_inflow, FracInt(1)) THEN FracInt(1)
    ELSE r_features.monthly_net_inflow

\* C25 as claimed: for every non-empty history, whatever the sign of the
\* mean monthly inflow, expense_ratio is the sum of the recurring-expense
\* buckets over max(mean monthly inflow, 1).
C25_ExpenseRatioAlwaysQuotient ==
    Extracted =>
        r_features.expense_ratio
            = Ratio(TotalMonthlyExpenses(Buckets), FlooredInflow)

\* C25 amended: for a non-empty history with a positive mean monthly inflow
\* expense_ratio is the sum of the recurring-expense buckets over
\* max(mean monthly inflow, 1); with a zero or negative mean it is 1.0.
C25_ExpenseRatioGuarded ==
    Extracted =>
        r_features.expense_ratio
            = IF FracLT(FracZero, r_features.monthly_net_inflow)
              THEN Ratio(TotalMonthlyExpenses(Buckets), FlooredInflow)
              ELSE RatioScale

\* rent payments and no income: a housing bucket of 600 and a ratio of 1.0
C25_Witness ==
    /\ Extracted
    /\ FracLT(r_features.monthly_net_inflow, FracZero)
    /\ TotalMonthlyExpenses(Buckets) = FracInt(600)
    /\ r_features.expense_ratio = RatioScale

\* the balance series of the history, from the balance the collaborator
\* reports
Series == _estimate_daily_balances(Sorted, Get(r_balance_data, "balance", 0))

\* C27: the balance series starts with current_balance and has
\* 1 + min(90, n) entries for n transactions; over the 90 last transactions
\* in date order, newest first, each entry is the one before less that
\* transaction's amount; avg_balance and min_balance are the mean and the
\* minimum of the series and nsf_events counts its entries below 0, the
\* first one included.
C27_BalanceSeries ==
    Extracted =>
        \A sorted \in {Sorted} : \A series \in {Series} :
            LET n == Len(sorted)
                m == Min(90, n)
            IN  /\ Len(series) = 1 + m
                /\ series[1] = Get(r_balance_data, "balance", 0)
                /\ \A k \in 1..m :
                       series[k + 1] = series[k] - sorted[n - k + 1]["amount"]
                /\ r_features.avg_balance = Frac(SumSeq(series), Len(series))
                /\ \E k \in 1..Len(series) : r_features.min_balance = series[k]
                /\ \A k \in 1..Len(series) : r_features.min_balance <= series[k]
                /\ r_features.nsf_events
                       = Cardinality({k \in 1..Len(series) : series[k] < 0})

\* 92 transactions on an overdrawn account: 91 entries, the first of them
\* one of the NSF events
C27_Witness ==
    /\ Extracted
    /\ Len(r_transactions) = 92
    /\ \E series \in {Series} : Len(series) = 91 /\ series[1] < 0
    /\ r_features.nsf_events > 1
    /\ r_features.nsf_events < 91

\* the descriptions that three or more expenses of the history share
RepeatedIn(txs) ==
    {d \in {txs[i]["description"] :
               i \in {j \in 1..Len(txs) : IsExpense(txs[j])}} :
        Cardinality({i \in 1..Len(txs) :
                        /\ IsExpense(txs[i])
                        /\ txs[i]["description"] = d}) >= 3}

Repeated == RepeatedIn(r_transactions)

\* the history without the expenses whose description is not in kept
Without(sorted, kept) ==
    LET Kept(tx) == ~IsExpense(tx) \/ tx["description"] \in kept
    IN  SelectSeq(sorted, Kept)

\* the words that put a description into the housing, utilities or phone
\* bucket
BucketWords ==
    {"RENT", "MORTGAGE", "ELECTRIC", "GAS", "WATER", "UTILITIES", "PHONE",
     "WIRELESS"}

\* C28 as claimed: payment_consistency is 0.90 when three or more expenses
\* share a description and 0.8 otherwise; a description occurring fewer
\* than 3 times contributes to no bucket.
C28_ConsistencyOnRepeats ==
    Extracted =>
        /\ r_features.payment_consistency
               = IF Repeated # {} THEN 9000 ELSE 8000
        /\ \A sorted \in {Sorted} : \A kept \in {Repeated} :
               _identify_recurring_expenses(sorted)
                   = _identify_recurring_expenses(Without(sorted, kept))

\* C28 amended: payment_consistency is 0.90 when three or more expenses
\* share a description that holds a housing, utilities or phone word, and
\* 0.8 otherwise; a description occurring fewer than 3 times contributes to
\* no bucket.
C28_ConsistencyOnBuckets ==
    Extracted =>
        /\ r_features.payment_consistency
               = IF \E d \in Repeated : WordsIn(d) \cap BucketWords # {}
                 THEN 9000 ELSE 8000
        /\ \A sorted \in {Sorted} : \A kept \in {Repeated} :
               _identify_recurring_expenses(sorted)
                   = _identify_recurring_expenses(Without(sorted, kept))

\* three coffees and a single rent payment: no bucket, 0.8
C28_Witness ==
    /\ Extracted
    /\ Repeated = {"Starbucks"}
    /\ \E i \in 1..Len(Sorted) :
           IsExpense(Sorted[i]) /\ Sorted[i]["description"] = "Rent"
    /\ Buckets = <<>>
    /\ r_features.payment_consistency = 8000

\* C29: when the fetch fails or the history is empty, whatever the user and
\* the balance, analyze_risk returns score 735, tier Gold and a credit
\* card, an overdraft line and BNPL that are all eligible.
C29_DefaultAssessment ==
    (RiskAnswered /\ mcp.transactions = <<>>) =>
        /\ risk_response.status = 200
        /\ Assessment.score = 735
        /\ Assessment.tier = "Gold"
        /\ \A product \in {"credit_card", "overdraft_line", "bnpl"} :
               /\ product \in DOMAIN Assessment.eligibility
               /\ Assessment.eligibility[product].eligible

\* an empty history of an overdrawn account, asked for by name
C29_Witness ==
    /\ RiskAnswered
    /\ mcp = [transactions |-> <<>>, balance_data |-> "balance" :> -10]
    /\ Assessment.user_id = "alice"
    /\ Assessment.score = 735
    /\ Assessment.eligibility["overdraft_line"].eligible

----------------------------------------------------------------------------
(* The cache of the gateway                                                *)

\* C30: /preapproval answers from the cache only while the user's entry is
\* less than 300 seconds old; when the entry is 300 seconds old or older,
\* more than a day included, or when there is none, the answer is computed
\* anew; an error response is never put into the cache.
C30_CacheLivesFiveMinutes ==
    /\ served.source = "cache" => served.age >= 0 /\ served.age < cache_ttl
    /\ served.source \in {"agents", "error"} =>
           served.age = -1 \/ served.age >= cache_ttl
    /\ \A cache_key \in DOMAIN cache : cache[cache_key][1]["status"] # "error"

====
